---- MODULE Spec2Model ----
(***************************************************************************)
(* State-machine model of the QWen decoder stack of PaddleNLP              *)
(* (paddlenlp/transformers/qwen/modeling_network.py) and of the fused      *)
(* kernel dispatch layer (paddlenlp/transformers/llama/fusion_ops.py).     *)
(*                                                                         *)
(* Tensors are abstracted to what decides control flow and provenance:     *)
(*   - a rotary table is the triple (fn, length, alpha it was built with); *)
(*   - a cached key is the sequence, one entry per position, of the alpha  *)
(*     of the table slice that rotated it; a cached value is a sequence of *)
(*     the same length (values are not rotated);                           *)
(*   - attention weights and hidden states are opaque tagged items.        *)
(* Input lengths are at least 1.                                           *)
(***************************************************************************)
EXTENDS Integers, Sequences, FiniteSets, TLC

VARIABLES
    training,   \* nn.Layer.training of the stack and of all its sublayers
    config,     \* the QWenConfig fields the modelled code reads
    h,          \* QWenModelNet.h: per block, the attention module's mutable state
    kv,         \* the generation loop's cache: the past_key_values it holds
    last,       \* the last call of QWenModelNet.forward: arguments and results
    rot,        \* a RotaryEmbedding instance driven directly
    rlast,      \* the last call of RotaryEmbedding.forward on rot
    env,        \* the process environment: paddle version, device, kernels present
    fconfig,    \* the config fields fusion_ops reads
    fa,         \* the last call of fusion_flash_attention: arguments and results
    fr,         \* the last call of fusion_rope: arguments and results
    rp,         \* the last call of apply_rotary_pos_emb: arguments and results
    rh,         \* a tensor and what repeated calls of rotate_half made of it
    mlp,        \* a QWenMLPNet instance: the attributes __init__ created
    mlast,      \* the last call of QWenMLPNet.forward on mlp
    flag,       \* the environment variable FLAGS_enable_fused_ffn_qkv_pass
    nm,         \* the last call of a fused RMS norm: arguments and results
    gm,         \* the last call of GlobalNet.forward: arguments and the mask
    cr,         \* the last call of the loss criterion: arguments and result
    pdc,        \* the processes of get_static_model_on_pdc and their storage
    dl,         \* the callers of get_path_from_url_with_filelock and their files
    dn          \* one run of _download: its position, the server, the files

\* The mask layer, the criterion and the downloader.
toolVars == <<gm, cr, pdc, dl, dn>>

\* The layers that own state or are called for their result alone.
coreLayerVars == <<rp, rh, mlp, mlast, flag, nm>>

\* The state of everything that is used on its own, outside the stack.
layerVars == <<coreLayerVars, toolVars>>

vars == <<training, config, h, kv, last, rot, rlast, env, fconfig, fa, fr, layerVars>>

(***************************************************************************)
(* Bounds of the model                                                     *)
(***************************************************************************)
NumLayers == 2        \* config.num_hidden_layers
SeqLength == 2        \* config.seq_length, the trained context length
MaxK == 4             \* fresh inputs are up to MaxK * SeqLength tokens long
MaxDecodeSteps == 1   \* incremental one-token steps chained on one cache
MaxRotLen == 17       \* longest max_seq_len of a direct RotaryEmbedding call
MaxOffset == 1        \* offset of a direct RotaryEmbedding call
MaxAlphaExp == 2      \* direct calls pass ntk_alpha in {2^m - 1 : m in 1..MaxAlphaExp}
MaxQLen == 2          \* query length of a fusion_flash_attention call
MaxDegree == 2        \* context_parallel_degree and sep_parallel_degree
Bsz == 2              \* batch size of a fusion_flash_attention call
NumHeads == 2         \* heads of the query of a fusion_flash_attention call
HeadDim == 2          \* head_dim of the value of a fusion_flash_attention call
MaxRows == 2          \* vectors along the last axis of a rotate_half input
MaxLastDim == 4       \* longest last axis of a rotate_half input
MaxRotations == 2     \* successive applications of rotate_half
TableLen == 2         \* rows of the cos and sin tables given to apply_rotary_pos_emb
MaskBatch == 2        \* batch rows of a GlobalNet.forward call
MaskSeq == 2          \* new tokens of a GlobalNet.forward call
MaskPast == 1         \* cached tokens of a GlobalNet.forward call
MaxEntropy == 2       \* largest per-position cross entropy, in units
MaxPositions == 3     \* positions of a batch given to the criterion
MaxProcs == 3         \* local processes of a get_static_model_on_pdc call
MaxCallers == 2       \* concurrent callers of get_path_from_url_with_filelock
MaxChunks == 2        \* chunks of a response body before its end, in _download

(***************************************************************************)
(* Program constants                                                       *)
(***************************************************************************)
MinSeqLenCached == 16 \* max(2 * seqlen, 16)
InitNtkCached == 1    \* self._ntk_cached = 1.0, self._ntk_alpha_cached = 1.0
DOWNLOAD_RETRY_LIMIT == 3  \* line 50

Layers == 1 .. NumLayers

Max(a, b) == IF a >= b THEN a ELSE b
Min(a, b) == IF a <= b THEN a ELSE b

RECURSIVE Pow2(_)
Pow2(n) == IF n <= 0 THEN 1 ELSE 2 * Pow2(n - 1)

(***************************************************************************)
(* RotaryEmbedding                                                         *)
(***************************************************************************)
\* A table attribute that was never assigned (cos_cached / sin_cached do not
\* exist before the first rebuild).
Unset == [fn |-> "unset", len |-> 0, alpha |-> 0]

Table(f, n, a) == [fn |-> f, len |-> n, alpha |-> a]

\* RotaryEmbedding.__init__
RotaryEmbedding_init ==
    [inv_freq          |-> InitNtkCached,
     seq_len_cached    |-> 0,
     ntk_alpha_cached  |-> InitNtkCached,
     cos_cached        |-> Unset,
     sin_cached        |-> Unset]

\* Faulty variant of NeedsRebuild: the alpha comparison is forgotten.
NeedsRebuild_length_only(r, max_seq_len, offset, ntk_alpha) ==
    max_seq_len + offset > r.seq_len_cached

\* The condition under which update_cos_sin_cache rebuilds.
NeedsRebuild(r, max_seq_len, offset, ntk_alpha) ==
    \/ max_seq_len + offset > r.seq_len_cached
    \/ ntk_alpha # r.ntk_alpha_cached

\* Faulty variant of RebuildLen: no headroom, the requested length is cached.
RebuildLen_no_headroom(seqlen) == Max(seqlen, MinSeqLenCached)

\* The length the rebuild caches.
RebuildLen(seqlen) == Max(2 * seqlen, MinSeqLenCached)

\* The rebuild of update_cos_sin_cache, run up to the statement that fails:
\*   "none" : every statement ran;
\*   "pre"  : the new base or inv_freq could not be computed (nothing assigned);
\*   "meta" : inv_freq, _seq_len_cached, _ntk_alpha_cached were assigned and
\*            building seq / freqs / emb / emb.cos() failed;
\*   "cos"  : cos_cached was assigned too and emb.sin() failed.
Rebuild(r, max_seq_len, offset, ntk_alpha, fail) ==
    LET seqlen == max_seq_len + offset
        n      == RebuildLen(seqlen)
        meta   == [r EXCEPT !.inv_freq = ntk_alpha,
                            !.seq_len_cached = n,
                            !.ntk_alpha_cached = ntk_alpha]
        \* the tables are computed from self._seq_len_cached and self.inv_freq
        cos    == Table("cos", meta.seq_len_cached, meta.inv_freq)
        sin    == Table("sin", meta.seq_len_cached, meta.inv_freq)
    IN  CASE fail = "pre"  -> r
          [] fail = "meta" -> meta
          [] fail = "cos"  -> [meta EXCEPT !.cos_cached = cos]
          [] OTHER         -> [meta EXCEPT !.cos_cached = cos, !.sin_cached = sin]

\* RotaryEmbedding.update_cos_sin_cache, returning normally.
update_cos_sin_cache(r, max_seq_len, offset, ntk_alpha) ==
    IF NeedsRebuild(r, max_seq_len, offset, ntk_alpha)
    THEN Rebuild(r, max_seq_len, offset, ntk_alpha, "none")
    ELSE r

\* table[:, offset : offset + max_seq_len, :, ...]: a slice is clipped to the
\* table, it never fails.
Slice(t, offset, max_seq_len) ==
    [fn    |-> t.fn,
     alpha |-> t.alpha,
     start |-> offset,
     len   |-> Min(max_seq_len, Max(0, t.len - offset))]

NoSlice == [fn |-> "unset", alpha |-> 0, start |-> 0, len |-> 0]

\* RotaryEmbedding.forward: the updated instance and the (cos, sin) returned;
\* reading a table attribute that was never assigned raises AttributeError.
RotaryRead(r2, max_seq_len, offset) ==
    IF r2.cos_cached = Unset \/ r2.sin_cached = Unset
    THEN [status |-> "AttributeError", r |-> r2, cos |-> NoSlice, sin |-> NoSlice]
    ELSE [status |-> "ok", r |-> r2,
          cos |-> Slice(r2.cos_cached, offset, max_seq_len),
          sin |-> Slice(r2.sin_cached, offset, max_seq_len)]

RotaryEmbedding_forward(r, max_seq_len, offset, ntk_alpha) ==
    RotaryRead(update_cos_sin_cache(r, max_seq_len, offset, ntk_alpha), max_seq_len, offset)

(***************************************************************************)
(* Dynamic NTK scale (QWenAttentionNet.forward, lines 230-236)             *)
(***************************************************************************)
RECURSIVE CeilLog2Up(_, _, _)
CeilLog2Up(L, T, e) == IF Pow2(e) * T >= L THEN e ELSE CeilLog2Up(L, T, e + 1)

RECURSIVE CeilLog2Down(_, _, _)
CeilLog2Down(L, T, d) == IF L * Pow2(d + 1) <= T THEN CeilLog2Down(L, T, d + 1) ELSE d

\* math.ceil(math.log(L / T, 2)): the least integer e with 2^e >= L / T.
CeilLog2(L, T) == IF L > T THEN CeilLog2Up(L, T, 0) ELSE 0 - CeilLog2Down(L, T, 0)

\* Faulty variant of TwoPowMinusOne: the "- 1" is forgotten.
TwoPow_without_minus_one(m) == IF m >= 0 THEN Pow2(m) ELSE 0

\* 2 ** m - 1. For m < 0 Python yields a float in (-1, 0); it is represented
\* by its floor, which max(., 1) treats the same way.
TwoPowMinusOne(m) == IF m >= 0 THEN Pow2(m) - 1 ELSE 0 - 1

\* Faulty variant of ClampAlpha: the floor at 1 is forgotten.
ClampAlpha_no_floor(a) == a

\* ntk_alpha = max(2 ** math.ceil(context_value) - 1, 1)
ClampAlpha(a) == Max(a, 1)

\* context_value = math.log(kv_seq_len / self.seq_length, 2) + 1 and the
\* alpha computed from it.
compute_ntk_alpha(kv_seq_len, seq_length) ==
    LET ceil_context_value == CeilLog2(kv_seq_len, seq_length) + 1
    IN  ClampAlpha(TwoPowMinusOne(ceil_context_value))

\* Faulty variant of NtkGate: the scale is recomputed on incremental steps too.
NtkGate_ignoring_history(use_dynamic_ntk, kv_seq_len, q_len, train) ==
    use_dynamic_ntk /\ ~train

\* Faulty variant of NtkGate: the scale is recomputed in training mode too.
NtkGate_in_training(use_dynamic_ntk, kv_seq_len, q_len, train) ==
    use_dynamic_ntk /\ kv_seq_len = q_len

\* The gate of the recomputation: use_dynamic_ntk, no cached history in the
\* key/value length, and not training.
NtkGate(use_dynamic_ntk, kv_seq_len, q_len, train) ==
    use_dynamic_ntk /\ kv_seq_len = q_len /\ ~train

(***************************************************************************)
(* Items of the tuples the layers return                                   *)
(***************************************************************************)
Item(k, i, key, value) == [kind |-> k, block |-> i, key |-> key, value |-> value]
None == Item("None", 0, <<>>, <<>>)
Hidden(i) == Item("hidden", i, <<>>, <<>>)
AttnWeights(i) == Item("attn_weights", i, <<>>, <<>>)
KV(i, key, value) == Item("kv", i, key, value)

\* n copies of x
RECURSIVE Rep(_, _)
Rep(n, x) == IF n <= 0 THEN <<>> ELSE Append(Rep(n - 1, x), x)

(***************************************************************************)
(* QWenAttentionNet                                                        *)
(***************************************************************************)
\* QWenAttentionNet.__init__: the mutable state of one attention module.
QWenAttentionNet_init ==
    [ntk_cached |-> InitNtkCached, rotary_emb |-> RotaryEmbedding_init]

\* kv_seq_len (lines 226-229): `if layer_past:` is true of any tuple.
KvSeqLen(q_len, layer_past) ==
    IF layer_past.kind = "kv" THEN q_len + Len(layer_past.key) ELSE q_len

\* The key after paddle.concat([past_key, key], axis=1) (lines 260-263).
ConcatPast(past, new) == past \o new

\* Faulty variant of NtkStep: the recomputed scale is compounded with the
\* memoized one instead of replacing it.
NtkStep_compounding(ntk_cached, kv_seq_len, q_len, train) ==
    IF NtkGate(config.use_dynamic_ntk, kv_seq_len, q_len, train)
    THEN [recomputed |-> TRUE,
          ntk_alpha |-> ntk_cached * compute_ntk_alpha(kv_seq_len, SeqLength)]
    ELSE [recomputed |-> FALSE, ntk_alpha |-> ntk_cached]

\* Lines 230-236: whether the scale is recomputed, and the ntk_alpha used;
\* after either branch self._ntk_cached holds that ntk_alpha.
NtkStep(ntk_cached, kv_seq_len, q_len, train) ==
    IF NtkGate(config.use_dynamic_ntk, kv_seq_len, q_len, train)
    THEN [recomputed |-> TRUE, ntk_alpha |-> compute_ntk_alpha(kv_seq_len, SeqLength)]
    ELSE [recomputed |-> FALSE, ntk_alpha |-> ntk_cached]

\* Lines 258-268: apply_rotary_pos_emb rotates the q_len new keys with the
\* slice (of alpha `alpha`), the past is concatenated in front, and present
\* is the pair when use_cache is set.
Present(i, q_len, layer_past, use_cache, alpha) ==
    IF ~use_cache THEN None
    ELSE IF layer_past.kind = "kv"
    THEN KV(i, ConcatPast(layer_past.key, Rep(q_len, alpha)),
               ConcatPast(layer_past.value, Rep(q_len, 0)))
    ELSE KV(i, Rep(q_len, alpha), Rep(q_len, 0))

\* Lines 288-290: outputs = (attn_output, present[, attn_weight]).
AttentionOutputs(i, present, output_attentions) ==
    <<Hidden(i), present>> \o (IF output_attentions THEN <<AttnWeights(i)>> ELSE <<>>)

\* Lines 245-258: what rotates query and key. With config.use_fused_rope the
\* fused primitive is called, whatever layer_past is; calling it when its
\* import failed (the name is None) raises TypeError.
RopePath ==
    IF config.use_fused_rope
    THEN IF env.has_fused_rope THEN "fused" ELSE "none"
    ELSE "rotate_half"

\* Lines 237-292, given the result n of lines 230-236 and the result emb of
\* the call of rotary_emb.
AttentionResult(i, q_len, layer_past, use_cache, output_attentions, n, emb) ==
    [m          |-> [ntk_cached |-> n.ntk_alpha, rotary_emb |-> emb.r],
     status     |-> IF emb.status # "ok" THEN emb.status
                    ELSE IF RopePath = "none" THEN "TypeError" ELSE "ok",
     rope       |-> IF emb.status # "ok" THEN "none" ELSE RopePath,
     use_cache  |-> use_cache,
     cos        |-> emb.cos,
     sin        |-> emb.sin,
     ntk_alpha  |-> n.ntk_alpha,
     recomputed |-> n.recomputed,
     outputs    |-> AttentionOutputs(i,
                        Present(i, q_len, layer_past, use_cache, emb.cos.alpha),
                        output_attentions)]

\* Line 237 on: rotary_emb(value, kv_seq_len, ntk_alpha=ntk_alpha).
AttentionRotary(m, i, q_len, layer_past, use_cache, output_attentions, n) ==
    AttentionResult(i, q_len, layer_past, use_cache, output_attentions, n,
        RotaryEmbedding_forward(m.rotary_emb, KvSeqLen(q_len, layer_past), 0, n.ntk_alpha))

\* QWenAttentionNet.forward for block i with q_len new tokens. Returns the
\* module state after the call, the ntk_alpha passed to rotary_emb and the
\* outputs tuple (attn_output, present[, attn_weight]).
QWenAttentionNet_forward(m, i, q_len, layer_past, train, use_cache, output_attentions) ==
    AttentionRotary(m, i, q_len, layer_past, use_cache, output_attentions,
        NtkStep(m.ntk_cached, KvSeqLen(q_len, layer_past), q_len, train))

(***************************************************************************)
(* QWenBlockNet                                                            *)
(***************************************************************************)
\* seq[n:] of Python, on a 1-based sequence
Tail_from(s, n) == SubSeq(s, n + 1, Len(s))

\* Lines 353-374, given the tuple a.outputs the attention returned: the
\* tuple the block returns; a tuple of one element is returned unwrapped
\* (is_tuple = FALSE).
BlockOutputs(i, use_cache, attn_outputs) ==
    IF use_cache
    THEN <<Hidden(i)>> \o Tail_from(attn_outputs, 1)
    ELSE <<Hidden(i)>> \o Tail_from(Tail_from(attn_outputs, 1), 1)

BlockResult(a, outputs) ==
    [m          |-> a.m,
     status     |-> a.status,
     rope       |-> a.rope,
     use_cache  |-> a.use_cache,
     cos        |-> a.cos,
     sin        |-> a.sin,
     ntk_alpha  |-> a.ntk_alpha,
     recomputed |-> a.recomputed,
     is_tuple   |-> Len(outputs) # 1,
     outputs    |-> outputs]

BlockAfterAttention(i, use_cache, a) == BlockResult(a, BlockOutputs(i, use_cache, a.outputs))

\* QWenBlockNet.forward (lines 343-374).
QWenBlockNet_forward(m, i, q_len, layer_past, train, use_cache, output_attentions) ==
    BlockAfterAttention(i, use_cache,
        QWenAttentionNet_forward(m, i, q_len, layer_past, train, use_cache,
                                 output_attentions))

(***************************************************************************)
(* QWenModelNet                                                            *)
(***************************************************************************)
\* An optional tuple: Python's None, or a tuple of items.
NoneT == [some |-> FALSE, items |-> <<>>]
Some(items) == [some |-> TRUE, items |-> items]

\* The index QWenModelNet.forward reads a block's present from
\* (outputs[2 if output_attentions else 1]), 1-based.
PresentIndex(output_attentions) == IF output_attentions THEN 3 ELSE 2

\* The index it reads a block's attention weights from (outputs[1]), 1-based.
AttentionIndex == 2

\* use_cache after the recompute check (lines 499-502).
EffectiveUseCache(use_cache, train) ==
    IF config.use_recompute /\ train /\ use_cache THEN FALSE ELSE use_cache

\* A past_key_values the stack cannot read: an entry that is no (key, value)
\* pair. A None entry fails at past_key_values[0][0] (line 481); an attention
\* weights tensor fails at `if layer_past:` (line 227, the truth value of a
\* tensor of several elements), before any module state is written.
UnreadablePast(pkv) ==
    pkv.some /\ \E i \in Layers : pkv.items[i].kind # "kv"

LoopStart ==
    [status |-> "ok", hs |-> <<>>, ntk_alpha |-> <<>>, recomputed |-> <<>>,
     rope |-> <<>>, block_use_cache |-> <<>>, slices |-> <<>>, presents |-> <<>>,
     all_self_attentions |-> <<>>]

\* Lines 535-544: what one iteration adds to the accumulators, given the
\* result b of the block.
Accumulate(acc, b, use_cache, output_attentions) ==
    [status     |-> b.status,
     hs         |-> Append(acc.hs, b.m),
     ntk_alpha  |-> Append(acc.ntk_alpha, b.ntk_alpha),
     recomputed |-> Append(acc.recomputed, b.recomputed),
     rope       |-> Append(acc.rope, b.rope),
     block_use_cache |-> Append(acc.block_use_cache, b.use_cache),
     slices     |-> Append(acc.slices, <<b.cos, b.sin>>),
     presents   |-> IF b.status = "ok" /\ use_cache
                    THEN Append(acc.presents, b.outputs[PresentIndex(output_attentions)])
                    ELSE acc.presents,
     all_self_attentions |->
                    IF b.status = "ok" /\ output_attentions
                    THEN Append(acc.all_self_attentions, b.outputs[AttentionIndex])
                    ELSE acc.all_self_attentions]

\* The loop over the blocks (lines 507-544), from block i on. acc holds
\* what the loop has accumulated: the modules that ran, presents,
\* all_self_attentions, and per block the ntk_alpha it passed on. The loop
\* ends at the first block that raises.
RECURSIVE BlockLoop(_, _, _, _, _, _, _, _)
BlockLoop(i, acc, hs, train, q_len, pkv, use_cache, output_attentions) ==
    IF i > NumLayers \/ acc.status # "ok"
    THEN acc
    ELSE BlockLoop(i + 1,
             Accumulate(acc,
                 QWenBlockNet_forward(hs[i], i, q_len,
                                      IF pkv.some THEN pkv.items[i] ELSE None,
                                      train, use_cache, output_attentions),
                 use_cache, output_attentions),
             hs, train, q_len, pkv, use_cache, output_attentions)

\* Lines 504-505 and 546-560, given the accumulators acc of the loop. The
\* two return forms are both recorded: `tuple` is what `return_dict = False`
\* returns, (hidden_states, presents, all_hidden_states) without the None
\* entries; past_key_values and attentions are the fields of the
\* BaseModelOutputWithPast that `return_dict = True` returns.
ModelResult(hs, use_cache, output_attentions, acc) ==
    IF acc.status # "ok"
    THEN [status |-> "error",
          hs |-> acc.hs \o SubSeq(hs, Len(acc.hs) + 1, NumLayers),
          use_cache |-> use_cache, ntk_alpha |-> acc.ntk_alpha,
          recomputed |-> acc.recomputed, rope |-> acc.rope,
          block_use_cache |-> acc.block_use_cache, slices |-> acc.slices,
          past_key_values |-> NoneT,
          attentions |-> NoneT, tuple |-> <<>>]
    ELSE [status |-> "ok",
          hs |-> acc.hs,
          use_cache |-> use_cache, ntk_alpha |-> acc.ntk_alpha,
          recomputed |-> acc.recomputed, rope |-> acc.rope,
          block_use_cache |-> acc.block_use_cache, slices |-> acc.slices,
          past_key_values |-> IF use_cache THEN Some(acc.presents) ELSE NoneT,
          attentions |-> IF output_attentions THEN Some(acc.all_self_attentions)
                                              ELSE NoneT,
          tuple |-> <<Hidden(NumLayers)>>
                    \o (IF use_cache THEN <<Some(acc.presents)>> ELSE <<>>)]

\* The loop with use_cache as lines 499-502 leave it.
ModelLoop(hs, train, q_len, pkv, use_cache, output_attentions) ==
    ModelResult(hs, use_cache, output_attentions,
        IF UnreadablePast(pkv)
        THEN [LoopStart EXCEPT !.status = "error"]
        ELSE BlockLoop(1, LoopStart, hs, train, q_len, pkv, use_cache, output_attentions))

\* QWenModelNet.forward (lines 460-560) on q_len new tokens per row given as
\* input_ids.
QWenModelNet_forward(hs, train, q_len, pkv, use_cache, output_attentions) ==
    ModelLoop(hs, train, q_len, pkv, EffectiveUseCache(use_cache, train),
              output_attentions)

\* What a call supplies as input: input_ids, inputs_embeds, both or neither.
InputKinds == {"input_ids", "inputs_embeds", "both", "neither"}

\* Faulty variant of InputCheck: input_ids win when both are supplied.
InputCheck_accepting_both(inputs) ==
    IF inputs = "neither" THEN "ValueError" ELSE "ok"

\* Lines 467-475: the check of input_ids against inputs_embeds.
InputCheck(inputs) ==
    IF inputs = "both" THEN "ValueError"
    ELSE IF inputs = "input_ids" THEN "ok"
    ELSE IF inputs = "inputs_embeds" THEN "ok"
    ELSE "ValueError"

\* The call that raised at the input check: nothing after line 475 ran.
RaisedAtInputCheck(hs, use_cache) ==
    [status |-> "ValueError", hs |-> hs, use_cache |-> use_cache,
     ntk_alpha |-> <<>>, recomputed |-> <<>>, rope |-> <<>>,
     block_use_cache |-> <<>>, slices |-> <<>>, past_key_values |-> NoneT,
     attentions |-> NoneT, tuple |-> <<>>]

\* QWenModelNet.forward (lines 460-560) with either kind of input; after the
\* check, inputs_embeds only skips the embedding lookup (lines 484-486).
QWenModelNet_forward_inputs(hs, inputs, train, q_len, pkv, use_cache, output_attentions) ==
    IF InputCheck(inputs) # "ok"
    THEN RaisedAtInputCheck(hs, use_cache)
    ELSE QWenModelNet_forward(hs, train, q_len, pkv, use_cache, output_attentions)

(***************************************************************************)
(* llama/fusion_ops.py: fusion_flash_attention                             *)
(***************************************************************************)
\* The characters of a version string in their code-point order.
Chars == <<".", "0", "1", "2", "3", "4", "5", "6", "7", "8", "9">>

Ord(c) == CHOOSE i \in 1 .. Len(Chars) : Chars[i] = c

\* Python's str <= str on strings held as sequences of characters.
RECURSIVE StrLeq(_, _)
StrLeq(a, b) ==
    IF a = <<>> THEN TRUE
    ELSE IF b = <<>> THEN FALSE
    ELSE IF Head(a) = Head(b) THEN StrLeq(Tail(a), Tail(b))
    ELSE Ord(Head(a)) < Ord(Head(b))

DevelopVersion == <<"0", ".", "0", ".", "0">>
LegacyVersion == <<"2", ".", "5", ".", "2">>

\* version != "0.0.0" and version <= "2.5.2"
IsLegacy(version) == version # DevelopVersion /\ StrLeq(version, LegacyVersion)

Versions == {DevelopVersion, LegacyVersion, <<"2", ".", "6", ".", "0">>}
Devices == {"gpu", "npu", "gcu", "intel_hpu", "xpu"}

\* has_fused_rope: the import of fused_rotary_position_embedding succeeded.
EnvSpace ==
    [version : Versions, device : Devices, has_flashmask : BOOLEAN, has_fused_rope : {TRUE}]
FusionConfigSpace ==
    [context_parallel_degree : 1 .. MaxDegree, sep_parallel_degree : 1 .. MaxDegree]

DefaultEnv ==
    [version |-> DevelopVersion, device |-> "gpu", has_flashmask |-> TRUE,
     has_fused_rope |-> TRUE]
DefaultFusionConfig == [context_parallel_degree |-> 1, sep_parallel_degree |-> 1]

\* One kernel launch: its name, the causal flag and the mask it is given.
Kernel(name, causal, mask) == [name |-> name, causal |-> causal, mask |-> mask]

Ran(k, weights) == [status |-> "ok", kernels |-> <<k>>, weights |-> weights]
Raised(e) == [status |-> e, kernels |-> <<>>, weights |-> FALSE]

\* The attention_mask argument after the alibi bias was added to it.
MaskArg(attention_mask, alibi) ==
    IF alibi THEN "mask+alibi" ELSE IF attention_mask THEN "mask" ELSE "none"

\* version <= "2.5.2": flash_attention, whatever the device.
LegacyAttention(cfg, output_attentions, alibi) ==
    IF alibi THEN Raised("ValueError")
    ELSE IF cfg.context_parallel_degree > 1 THEN Raised("ValueError")
    ELSE Ran(Kernel("flash_attention", TRUE, "none"), output_attentions)

\* Faulty variant of SdpaIsCausal: the kernel is always causal.
SdpaIsCausal_always(q_len) == TRUE

\* is_causal=query_states.shape[1] != 1
SdpaIsCausal(q_len) == q_len # 1

\* Faulty variant of GenericAttention: the start/end mask is looked at before the
\* context parallel degree.
GenericAttention_mask_before_ring(e, cfg, q_len, attention_mask, alibi, startend) ==
    IF startend
    THEN IF alibi THEN Raised("AssertionError")
         ELSE IF e.has_flashmask
              THEN Ran(Kernel("flashmask_attention", TRUE, "startend"), FALSE)
              ELSE Ran(Kernel("flash_attention_with_sparse_mask", TRUE, "startend"), FALSE)
    ELSE IF cfg.context_parallel_degree > 1
         THEN Ran(Kernel("RingFlashAttention", TRUE, "none"), FALSE)
         ELSE Ran(Kernel("scaled_dot_product_attention", q_len # 1,
                         MaskArg(attention_mask, alibi)), FALSE)

\* The branch of the devices without a vendor kernel.
GenericAttention(e, cfg, q_len, attention_mask, alibi, startend) ==
    IF cfg.context_parallel_degree > 1
    THEN Ran(Kernel("RingFlashAttention", TRUE, "none"), FALSE)
    ELSE IF startend
         THEN IF alibi THEN Raised("AssertionError")
              ELSE IF e.has_flashmask
                   THEN Ran(Kernel("flashmask_attention", TRUE, "startend"), FALSE)
                   ELSE Ran(Kernel("flash_attention_with_sparse_mask", TRUE, "startend"),
                            FALSE)
         ELSE Ran(Kernel("scaled_dot_product_attention", SdpaIsCausal(q_len),
                         MaskArg(attention_mask, alibi)), FALSE)

\* The branch of the current versions: alibi is folded into the mask, then
\* the device picks the kernel.  npu_is_casual keeps its default, False.
CurrentAttention(e, cfg, q_len, attention_mask, alibi, startend) ==
    IF alibi /\ ~attention_mask THEN Raised("AttributeError")
    ELSE IF e.device = "npu"
    THEN IF cfg.context_parallel_degree > 1 THEN Raised("ValueError")
         ELSE Ran(Kernel("flash_attention_npu", FALSE, MaskArg(attention_mask, alibi)), FALSE)
    ELSE IF e.device = "gcu"
    THEN IF cfg.context_parallel_degree > 1 THEN Raised("ValueError")
         ELSE Ran(Kernel("fused_sdp_flash_attention_gcu", TRUE,
                         MaskArg(attention_mask, alibi)), FALSE)
    ELSE IF e.device = "intel_hpu"
    THEN IF cfg.context_parallel_degree > 1 THEN Raised("ValueError")
         ELSE IF ~attention_mask THEN Raised("AttributeError")
         ELSE Ran(Kernel("fused_dot_product_attention", FALSE,
                         MaskArg(attention_mask, alibi)), FALSE)
    ELSE GenericAttention(e, cfg, q_len, attention_mask, alibi, startend)

NoShape == <<>>

\* Faulty variant of ReshardAllowed: the divisibility of q_len is not asserted.
ReshardAllowed_any_length(sep, q_len) == sep > 1

\* assert config.sep_parallel_degree > 1 and
\*        q_len % config.sep_parallel_degree == 0
ReshardAllowed(sep, q_len) == sep > 1 /\ q_len % sep = 0

\* The reshape at the end: [bsz * q_len, d] or [bsz, q_len, d].
OutputShape(q_len, num_heads, sequence_parallel) ==
    IF sequence_parallel
    THEN <<Bsz * q_len, HeadDim * num_heads>>
    ELSE <<Bsz, q_len, HeadDim * num_heads>>

\* fusion_flash_attention(query_states, config, key_states, value_states,
\*     attention_mask, output_attentions, alibi, attn_mask_startend_row_indices,
\*     sequence_parallel, reshard_layer)
\* Absent optional arguments are FALSE.  The result records the exception
\* or "ok", the kernels launched, the shape of attn_output and whether the
\* second element of the returned pair holds attention weights.
fusion_flash_attention(e, cfg, q_len, attention_mask, output_attentions, alibi, startend, sequence_parallel, reshard_layer) ==
    LET a == IF IsLegacy(e.version)
             THEN LegacyAttention(cfg, output_attentions, alibi)
             ELSE CurrentAttention(e, cfg, q_len, attention_mask, alibi, startend)
        sep == cfg.sep_parallel_degree
    IN  IF a.status # "ok"
        THEN [status |-> a.status, kernels |-> a.kernels, shape |-> NoShape,
              pair |-> FALSE, weights |-> FALSE]
        ELSE IF reshard_layer /\ ~ReshardAllowed(sep, q_len)
        THEN [status |-> "AssertionError", kernels |-> a.kernels, shape |-> NoShape,
              pair |-> FALSE, weights |-> FALSE]
        ELSE [status |-> "ok", kernels |-> a.kernels,
              shape |-> IF reshard_layer
                        THEN OutputShape(q_len \div sep, NumHeads * sep, sequence_parallel)
                        ELSE OutputShape(q_len, NumHeads, sequence_parallel),
              pair |-> output_attentions, weights |-> a.weights]

NoFusionCall ==
    [op |-> "none", status |-> "ok", q_len |-> 0, attention_mask |-> FALSE,
     output_attentions |-> FALSE, alibi |-> FALSE, startend |-> FALSE,
     sequence_parallel |-> FALSE, reshard_layer |-> FALSE, kernels |-> <<>>,
     shape |-> NoShape, pair |-> FALSE, weights |-> FALSE]

(***************************************************************************)
(* llama/fusion_ops.py: fusion_rope                                        *)
(***************************************************************************)
\* The digit a character of a version string stands for.
Digit(c) == Ord(c) - Ord("0")

\* float(paddle.__version__[:3]), in tenths.
VersionTenths(version) == Digit(version[1]) * 10 + Digit(version[3])

\* paddle_version != 0.0 and paddle_version <= 2.6
SplitRopeVersion(version) ==
    VersionTenths(version) # 0 /\ VersionTenths(version) <= VersionTenths(<<"2", ".", "6">>)

RopeRan(kernels) == [status |-> "ok", kernels |-> kernels]
RopeRaised(e) == [status |-> e, kernels |-> <<>>]

\* Lines 77-130: the rotary kernels the device runs on query and key.
RopeKernels(e, heads_differ) ==
    IF e.device = "npu" THEN RopeRan(<<"fused_rope", "fused_rope">>)
    ELSE IF e.device = "intel_hpu"
    THEN RopeRan(<<"fused_rotary_position_embedding", "fused_rotary_position_embedding">>)
    ELSE IF e.device = "gcu" THEN RopeRan(<<"fused_rotary_embedding_gcu">>)
    ELSE IF ~e.has_fused_rope THEN RopeRaised("TypeError")
    ELSE IF SplitRopeVersion(e.version) /\ heads_differ
    THEN RopeRan(<<"fused_rotary_position_embedding", "fused_rotary_position_embedding">>)
    ELSE RopeRan(<<"fused_rotary_position_embedding">>)

\* fusion_rope(query_states, key_states, value_states, hidden_states,
\*     position_ids, past_key_value, rotary_emb, context_parallel_degree):
\* past_key_value is TRUE when one is passed, heads_differ when
\* num_heads != num_key_value_heads.
fusion_rope(e, past_key_value, context_parallel_degree, heads_differ) ==
    IF e.device \notin {"gcu", "intel_hpu"} /\ past_key_value
    THEN RopeRaised("AssertionError")
    ELSE IF context_parallel_degree > 1 /\ e.device # "gpu"
    THEN RopeRaised("AssertionError")
    ELSE RopeKernels(e, heads_differ)

NoRopeCall ==
    [op |-> "none", status |-> "ok", past_key_value |-> FALSE,
     context_parallel_degree |-> 0, heads_differ |-> FALSE, kernels |-> <<>>]

(***************************************************************************)
(* The generation loop around the stack                                    *)
(***************************************************************************)
\* The lengths of the fresh inputs: 1 and the multiples of the trained length.
InputLens == {1} \cup {k * SeqLength : k \in 1 .. MaxK}

\* The calls of the generation loop, as (q_len, past): a fresh prompt of any
\* length without a past, a prompt with a past of length 0, and a one-token
\* decode step on the cache it holds.
Calls ==
    (InputLens \X {"none"}) \cup {<<2 * SeqLength, "empty">>, <<1, "held">>}

NoCache == [held |-> FALSE, items |-> <<>>, total |-> 0, steps |-> 0, current |-> FALSE]

\* A past_key_values of length 0: one pair of empty tensors per block.
RECURSIVE EmptyItems(_)
EmptyItems(n) == IF n = 0 THEN <<>> ELSE Append(EmptyItems(n - 1), KV(n, <<>>, <<>>))

EmptyPast == Some(EmptyItems(NumLayers))

PastOf(pk) ==
    CASE pk = "held"  -> Some(kv.items)
      [] pk = "empty" -> EmptyPast
      [] OTHER        -> NoneT

NoCall ==
    [op |-> "none", status |-> "ok", q_len |-> 0, past |-> NoneT,
     past_current |-> FALSE, past_total |-> 0,
     training |-> TRUE, use_cache |-> FALSE, output_attentions |-> FALSE,
     use_cache_eff |-> FALSE,
     ntk_before |-> <<>>, ntk_after |-> <<>>, ntk_alpha |-> <<>>, recomputed |-> <<>>,
     rope |-> <<>>, block_use_cache |-> <<>>, inputs |-> "none",
     slices |-> <<>>, repeat |-> FALSE,
     past_key_values |-> NoneT, attentions |-> NoneT, tuple |-> <<>>]

NoRotaryCall ==
    [op |-> "none", status |-> "ok", max_seq_len |-> 0, offset |-> 0, ntk_alpha |-> 0,
     fail |-> "none", before |-> RotaryEmbedding_init, cos |-> NoSlice, sin |-> NoSlice]

\* No call yet, no instance yet.
Idle == [op |-> "none"]

\* The layers used on their own, before any of them is built or called; the
\* environment variable FLAGS_enable_fused_ffn_qkv_pass is unset.
LayersIdle ==
    /\ rp = Idle
    /\ rh = Idle
    /\ mlp = Idle
    /\ mlast = Idle
    /\ flag = "unset"
    /\ nm = Idle

\* No call of the mask layer, the criterion or the downloader yet.
ToolsIdle ==
    /\ gm = Idle
    /\ cr = Idle
    /\ pdc = Idle
    /\ dl = Idle
    /\ dn = Idle

InitLayers == LayersIdle /\ ToolsIdle

\* The stack runs with the default use_fused_rope, False.
ConfigSpace ==
    [use_dynamic_ntk : BOOLEAN, use_recompute : BOOLEAN, use_fused_rope : {FALSE}]

\* The _ntk_cached of every block.
RECURSIVE NtkOf(_)
NtkOf(hs) == IF hs = <<>> THEN <<>> ELSE <<Head(hs).ntk_cached>> \o NtkOf(Tail(hs))

Init ==
    /\ training = TRUE
    /\ config \in ConfigSpace
    /\ h = Rep(NumLayers, QWenAttentionNet_init)
    /\ kv = NoCache
    /\ last = NoCall
    /\ rot = RotaryEmbedding_init
    /\ rlast = NoRotaryCall
    /\ env = DefaultEnv
    /\ fconfig = DefaultFusionConfig
    /\ fa = NoFusionCall
    /\ fr = NoRopeCall
    /\ InitLayers

\* model.train() / model.eval()
SetTraining(b) ==
    /\ training # b
    /\ training' = b
    /\ UNCHANGED <<config, h, kv, last, rot, rlast, env, fconfig, fa, fr, layerVars>>

\* Whether a call that asks for no cache repeats the call before it: the
\* same arguments in the same mode.
SameCall(inputs, q_len, past, use_cache, output_attentions) ==
    /\ ~use_cache
    /\ last.op = "forward"
    /\ last.inputs = inputs
    /\ last.q_len = q_len
    /\ last.past = past
    /\ last.use_cache = use_cache
    /\ last.output_attentions = output_attentions
    /\ last.training = training

\* One call of QWenModelNet.forward by the generation loop, which keeps the
\* cache the call returns for the next step. With `compare` the record of the
\* call notes whether it repeats the call before it.
ForwardCall(compare, inputs, q_len, pk, use_cache, output_attentions) ==
    /\ pk = "held" => kv.held /\ kv.steps < MaxDecodeSteps
    /\ \E r \in {QWenModelNet_forward_inputs(h, inputs, training, q_len, PastOf(pk),
                                             use_cache, output_attentions)} :
       LET same_memo == NtkOf(r.hs) = NtkOf(h)
           base == IF pk = "held" THEN kv.total ELSE 0
       IN  /\ h' = r.hs
           /\ last' = [op |-> "forward", status |-> r.status, inputs |-> inputs,
                       q_len |-> q_len,
                       past |-> PastOf(pk),
                       past_current |-> pk = "held" /\ kv.current,
                       past_total |-> base,
                       training |-> training, use_cache |-> use_cache,
                       output_attentions |-> output_attentions,
                       use_cache_eff |-> r.use_cache,
                       ntk_before |-> NtkOf(h),
                       ntk_after |-> NtkOf(r.hs),
                       ntk_alpha |-> r.ntk_alpha,
                       recomputed |-> r.recomputed,
                       rope |-> r.rope,
                       block_use_cache |-> r.block_use_cache,
                       slices |-> r.slices,
                       repeat |-> compare /\ SameCall(inputs, q_len, PastOf(pk), use_cache,
                                                       output_attentions),
                       past_key_values |-> r.past_key_values,
                       attentions |-> r.attentions,
                       tuple |-> r.tuple]
           /\ kv' = IF r.status = "ok" /\ r.past_key_values.some
                    THEN [held |-> TRUE, items |-> r.past_key_values.items,
                          total |-> base + q_len,
                          steps |-> IF pk = "held" THEN kv.steps + 1 ELSE 0,
                          current |-> IF pk = "held" THEN kv.current /\ same_memo ELSE TRUE]
                    ELSE [kv EXCEPT !.current = kv.current /\ same_memo]
    /\ UNCHANGED <<training, config, rot, rlast, env, fconfig, fa, fr, layerVars>>

\* The call with input_ids.
Forward(q_len, pk, use_cache, output_attentions) ==
    ForwardCall(FALSE, "input_ids", q_len, pk, use_cache, output_attentions)

\* The call with any kind of input, compared with the call before it.
ForwardInputs(inputs, q_len, pk, use_cache, output_attentions) ==
    ForwardCall(TRUE, inputs, q_len, pk, use_cache, output_attentions)

Next ==
    \/ \E b \in BOOLEAN : SetTraining(b)
    \/ \E c \in Calls, use_cache \in BOOLEAN, output_attentions \in BOOLEAN :
          Forward(c[1], c[2], use_cache, output_attentions)

Spec == Init /\ [][Next]_vars

(***************************************************************************)
(* Direct use of a RotaryEmbedding instance                                *)
(***************************************************************************)
\* The ntk_alpha values a direct caller passes: 2^m - 1.
DirectAlphas == {Pow2(m) - 1 : m \in 1 .. MaxAlphaExp}

\* The lengths of direct calls: the shortest, the two around the minimum
\* cached length, and one that outgrows it.
DirectLens == {1, MinSeqLenCached \div 2, MinSeqLenCached \div 2 + 1, MaxRotLen}

FixedConfig ==
    [use_dynamic_ntk |-> TRUE, use_recompute |-> FALSE, use_fused_rope |-> FALSE]

InitRotary ==
    /\ training = TRUE
    /\ config = FixedConfig
    /\ h = Rep(NumLayers, QWenAttentionNet_init)
    /\ kv = NoCache
    /\ last = NoCall
    /\ rot = RotaryEmbedding_init
    /\ rlast = NoRotaryCall
    /\ env = DefaultEnv
    /\ fconfig = DefaultFusionConfig
    /\ fa = NoFusionCall
    /\ fr = NoRopeCall
    /\ InitLayers

\* rot(x, max_seq_len, offset, ntk_alpha) returning, or raising AttributeError.
RotaryCall(max_seq_len, offset, ntk_alpha) ==
    /\ \E r \in {RotaryEmbedding_forward(rot, max_seq_len, offset, ntk_alpha)} :
          /\ rot' = r.r
          /\ rlast' = [op |-> "forward", status |-> r.status,
                       max_seq_len |-> max_seq_len, offset |-> offset,
                       ntk_alpha |-> ntk_alpha, fail |-> "none", before |-> rot,
                       cos |-> r.cos, sin |-> r.sin]
    /\ UNCHANGED <<training, config, h, kv, last, env, fconfig, fa, fr, layerVars>>

\* The same call when a statement of the rebuild raises (a tensor operation
\* that fails, e.g. for lack of memory): the exception leaves
\* update_cos_sin_cache after the assignments made so far.
RotaryCallRaises(max_seq_len, offset, ntk_alpha, fail) ==
    /\ NeedsRebuild(rot, max_seq_len, offset, ntk_alpha)
    /\ rot' = Rebuild(rot, max_seq_len, offset, ntk_alpha, fail)
    /\ rlast' = [op |-> "forward", status |-> "raised",
                 max_seq_len |-> max_seq_len, offset |-> offset,
                 ntk_alpha |-> ntk_alpha, fail |-> fail, before |-> rot,
                 cos |-> NoSlice, sin |-> NoSlice]
    /\ UNCHANGED <<training, config, h, kv, last, env, fconfig, fa, fr, layerVars>>

NextRotary ==
    \E max_seq_len \in DirectLens, offset \in 0 .. MaxOffset, a \in DirectAlphas :
        RotaryCall(max_seq_len, offset, a)

SpecRotary == InitRotary /\ [][NextRotary]_vars

NextRotaryFault ==
    \/ \E max_seq_len \in DirectLens, offset \in 0 .. MaxOffset, a \in DirectAlphas :
          RotaryCall(max_seq_len, offset, a)
    \/ \E max_seq_len \in DirectLens, offset \in 0 .. MaxOffset, a \in DirectAlphas,
          fail \in {"pre", "meta", "cos"} :
          RotaryCallRaises(max_seq_len, offset, a, fail)

SpecRotaryFault == InitRotary /\ [][NextRotaryFault]_vars

(***************************************************************************)
(* Calls of fusion_flash_attention in a fixed environment                  *)
(***************************************************************************)
InitFusion ==
    /\ training = TRUE
    /\ config = FixedConfig
    /\ h = Rep(NumLayers, QWenAttentionNet_init)
    /\ kv = NoCache
    /\ last = NoCall
    /\ rot = RotaryEmbedding_init
    /\ rlast = NoRotaryCall
    /\ env \in EnvSpace
    /\ fconfig \in FusionConfigSpace
    /\ fa = NoFusionCall
    /\ fr = NoRopeCall
    /\ InitLayers

FusionFlashAttention(q_len, attention_mask, output_attentions, alibi, startend, sequence_parallel, reshard_layer) ==
    /\ \E r \in {fusion_flash_attention(env, fconfig, q_len, attention_mask,
                                        output_attentions, alibi, startend,
                                        sequence_parallel, reshard_layer)} :
          fa' = [op |-> "fusion_flash_attention", status |-> r.status, q_len |-> q_len,
                 attention_mask |-> attention_mask,
                 output_attentions |-> output_attentions, alibi |-> alibi,
                 startend |-> startend, sequence_parallel |-> sequence_parallel,
                 reshard_layer |-> reshard_layer, kernels |-> r.kernels,
                 shape |-> r.shape, pair |-> r.pair, weights |-> r.weights]
    /\ fr' = NoRopeCall
    /\ UNCHANGED <<training, config, h, kv, last, rot, rlast, env, fconfig, layerVars>>

\* One call of fusion_rope; the record of the other function's last call is
\* cleared, the records holding the most recent call only.
FusionRope(past_key_value, context_parallel_degree, heads_differ) ==
    /\ \E r \in {fusion_rope(env, past_key_value, context_parallel_degree, heads_differ)} :
          fr' = [op |-> "fusion_rope", status |-> r.status,
                 past_key_value |-> past_key_value,
                 context_parallel_degree |-> context_parallel_degree,
                 heads_differ |-> heads_differ, kernels |-> r.kernels]
    /\ fa' = NoFusionCall
    /\ UNCHANGED <<training, config, h, kv, last, rot, rlast, env, fconfig, layerVars>>

NextFusion ==
    \/ \E past_key_value \in BOOLEAN, heads_differ \in BOOLEAN :
          FusionRope(past_key_value, fconfig.context_parallel_degree, heads_differ)
    \/ \E q_len \in 1 .. MaxQLen, attention_mask \in BOOLEAN, output_attentions \in BOOLEAN,
       alibi \in BOOLEAN, startend \in BOOLEAN, sequence_parallel \in BOOLEAN,
       reshard_layer \in BOOLEAN :
        FusionFlashAttention(q_len, attention_mask, output_attentions, alibi, startend,
                             sequence_parallel, reshard_layer)

SpecFusion == InitFusion /\ [][NextFusion]_vars

\* The stack, the RotaryEmbedding instance and the dispatch layer, unused
\* while a layer is exercised on its own.
stackVars == <<training, config, h, kv, last, rot, rlast, env, fconfig, fa, fr>>

StackIdle ==
    /\ training = TRUE
    /\ config = FixedConfig
    /\ h = Rep(NumLayers, QWenAttentionNet_init)
    /\ kv = NoCache
    /\ last = NoCall
    /\ rot = RotaryEmbedding_init
    /\ rlast = NoRotaryCall
    /\ env = DefaultEnv
    /\ fconfig = DefaultFusionConfig
    /\ fa = NoFusionCall
    /\ fr = NoRopeCall

(***************************************************************************)
(* The QWen stack with config.use_fused_rope, next to fusion_rope          *)
(***************************************************************************)
\* The configurations with either setting of use_fused_rope.
RopeConfigSpace ==
    [use_dynamic_ntk : {TRUE}, use_recompute : {FALSE}, use_fused_rope : BOOLEAN]

\* The environments in which the import of fused_rotary_position_embedding
\* (modeling_network.py lines 47-50, fusion_ops.py lines 39-42) succeeded or
\* failed.
RopeEnvSpace ==
    [version : Versions, device : Devices, has_flashmask : {TRUE},
     has_fused_rope : BOOLEAN]

\* The calls of the generation loop: a prompt or a single token, with or
\* without the cache of the step before.
RopeCalls == {1, SeqLength} \X {"none", "held"}

InitRope ==
    /\ training = TRUE
    /\ config \in RopeConfigSpace
    /\ h = Rep(NumLayers, QWenAttentionNet_init)
    /\ kv = NoCache
    /\ last = NoCall
    /\ rot = RotaryEmbedding_init
    /\ rlast = NoRotaryCall
    /\ env \in RopeEnvSpace
    /\ fconfig = DefaultFusionConfig
    /\ fa = NoFusionCall
    /\ fr = NoRopeCall
    /\ InitLayers

NextRope ==
    \/ \E c \in RopeCalls, use_cache \in BOOLEAN : Forward(c[1], c[2], use_cache, FALSE)
    \/ \E past_key_value \in BOOLEAN, heads_differ \in BOOLEAN :
          FusionRope(past_key_value, fconfig.context_parallel_degree, heads_differ)

SpecRope == InitRope /\ [][NextRope]_vars

(***************************************************************************)
(* The QWen stack called with input_ids, inputs_embeds, both or neither    *)
(***************************************************************************)
\* The calls: a prompt within or beyond the trained length, with or without
\* the cache of the step before.
InputCalls == {SeqLength, MaxK * SeqLength} \X {"none", "held"}

InitInputs ==
    /\ StackIdle
    /\ InitLayers

NextInputs ==
    \/ \E b \in BOOLEAN : SetTraining(b)
    \/ \E inputs \in InputKinds, c \in InputCalls, use_cache \in BOOLEAN :
          ForwardInputs(inputs, c[1], c[2], use_cache, FALSE)

SpecInputs == InitInputs /\ [][NextInputs]_vars

(***************************************************************************)
(* rotate_half and apply_rotary_pos_emb on integer tensors                 *)
(***************************************************************************)
\* -v, elementwise.
Neg(v) == [i \in 1 .. Len(v) |-> 0 - v[i]]

\* Faulty variant of RotateLast: the second half is moved to the front
\* without the sign change.
RotateLast_without_negation(v) ==
    SubSeq(v, Len(v) \div 2 + 1, Len(v)) \o SubSeq(v, 1, Len(v) \div 2)

\* rotate_half along the last axis, on one vector v of that axis:
\* x1 = v[: n // 2], x2 = v[n // 2 :], concat([-x2, x1]).
RotateLast(v) ==
    Neg(SubSeq(v, Len(v) \div 2 + 1, Len(v))) \o SubSeq(v, 1, Len(v) \div 2)

\* rotate_half(x) for a tensor x given as the sequence of its vectors along
\* the last axis (the leading axes flattened).
rotate_half(x) == [r \in 1 .. Len(x) |-> RotateLast(x[r])]

\* The vectors of length n over the values vals.
Vectors(n, vals) == [1 .. n -> vals]

\* The tensors rotate_half is applied to: one or two vectors along the last
\* axis, of every length up to MaxLastDim, odd lengths included.
HalfValues == {0 - 1, 2}
HalfInputs ==
    UNION {[1 .. rows -> Vectors(n, HalfValues)] : rows \in 1 .. MaxRows, n \in 1 .. MaxLastDim}

InitRotateHalf ==
    /\ StackIdle
    /\ rp = Idle
    /\ rh \in {[op |-> "input", x |-> x, y |-> x, n |-> 0] : x \in HalfInputs}
    /\ mlp = Idle
    /\ mlast = Idle
    /\ flag = "unset"
    /\ nm = Idle
    /\ ToolsIdle

\* y = rotate_half(y)
RotateHalf ==
    /\ rh.n < MaxRotations
    /\ rh' = [rh EXCEPT !.op = "rotate_half", !.y = rotate_half(rh.y), !.n = rh.n + 1]
    /\ UNCHANGED <<stackVars, rp, mlp, mlast, flag, nm, toolVars>>

NextRotateHalf == RotateHalf

SpecRotateHalf == InitRotateHalf /\ [][NextRotateHalf]_vars

\* position_ids = None
NoPositionIds == <<>>

\* The position ids [o, o + 1, .., o + L - 1] of one batch row.
Arange(L, o) == [i \in 1 .. L |-> o + i - 1]

\* cos[:, : q.shape[1], :, :] (lines 796-797) broadcast over the batch rows:
\* row l of the table for position l of every batch row. The table has
\* shape [1, T, 1, dim]; it is held as its T vectors of length dim.
SliceTable(table, bs, L) == [b \in 1 .. bs |-> SubSeq(table, 1, L)]

\* Faulty variant of GatherTable: the ids are taken as 1-based row numbers.
GatherTable_one_based(table, position_ids) ==
    [b \in 1 .. Len(position_ids) |->
        [l \in 1 .. Len(position_ids[b]) |-> table[Max(position_ids[b][l], 1)]]]

\* cos.squeeze(axis=[0, 2]) and cos[position_ids] (lines 799-802): for each
\* batch row and position, the table row its 0-based position id names.
GatherTable(table, position_ids) ==
    [b \in 1 .. Len(position_ids) |->
        [l \in 1 .. Len(position_ids[b]) |-> table[position_ids[b][l] + 1]]]

\* (x * cos) + (rotate_half(x) * sin) (lines 803-804) for x of shape
\* [bs, L, heads, dim] and cos, sin of shape [bs, L, 1, dim], broadcast over
\* the heads.
RotaryTerm(x, c, sn) ==
    [b \in 1 .. Len(x) |-> [l \in 1 .. Len(x[b]) |-> [n \in 1 .. Len(x[b][l]) |->
        [d \in 1 .. Len(x[b][l][n]) |->
            x[b][l][n][d] * c[b][l][d] + RotateLast(x[b][l][n])[d] * sn[b][l][d]]]]]

\* apply_rotary_pos_emb(q, k, cos, sin, position_ids), lines 793-804.
apply_rotary_pos_emb(q, k, cos, sin, position_ids) ==
    IF position_ids = NoPositionIds
    THEN <<RotaryTerm(q, SliceTable(cos, Len(q), Len(q[1])),
                         SliceTable(sin, Len(q), Len(q[1]))),
           RotaryTerm(k, SliceTable(cos, Len(q), Len(q[1])),
                         SliceTable(sin, Len(q), Len(q[1])))>>
    ELSE <<RotaryTerm(q, GatherTable(cos, position_ids), GatherTable(sin, position_ids)),
           RotaryTerm(k, GatherTable(cos, position_ids), GatherTable(sin, position_ids))>>

\* A tensor of shape [Bsz, L, NumHeads, HeadDim] whose entries all differ:
\* s times the 1-based row-major index of the entry.
Ramp(L, s) ==
    [b \in 1 .. Bsz |-> [l \in 1 .. L |-> [n \in 1 .. NumHeads |-> [d \in 1 .. HeadDim |->
        s * ((((b - 1) * L + (l - 1)) * NumHeads + (n - 1)) * HeadDim + d)]]]]

\* The cos and sin tables: TableLen rows of HeadDim entries in 0 .. 1.
RotaryTables == [1 .. TableLen -> Vectors(HeadDim, 0 .. 1)]

\* The signs of the query and key tensors.
Signs == {0 - 1, 1}

\* The calls of apply_rotary_pos_emb: sequence lengths up to the table
\* length.
ApplyInputs ==
    [L : 1 .. TableLen, qs : Signs, ks : Signs, cos : RotaryTables, sin : RotaryTables]

\* The explicit position ids of a call: per batch row, L consecutive ids in
\* the table.
PositionIds(L) == [1 .. Bsz -> {Arange(L, o) : o \in 0 .. TableLen - L}]

InitApplyRotary ==
    /\ StackIdle
    /\ rp \in {[op |-> "input", L |-> i.L, q |-> Ramp(i.L, i.qs), k |-> Ramp(i.L, 2 * i.ks),
                 cos |-> i.cos, sin |-> i.sin, position_ids |-> NoPositionIds,
                 implicit |-> <<>>, explicit |-> <<>>] : i \in ApplyInputs}
    /\ rh = Idle
    /\ mlp = Idle
    /\ mlast = Idle
    /\ flag = "unset"
    /\ nm = Idle
    /\ ToolsIdle

\* apply_rotary_pos_emb(q, k, cos, sin)
ApplyRotaryImplicit ==
    /\ rp.implicit = <<>>
    /\ rp' = [rp EXCEPT !.op = "apply",
                        !.implicit = apply_rotary_pos_emb(rp.q, rp.k, rp.cos, rp.sin,
                                                          NoPositionIds)]
    /\ UNCHANGED <<stackVars, rh, mlp, mlast, flag, nm, toolVars>>

\* apply_rotary_pos_emb(q, k, cos, sin, position_ids=position_ids)
ApplyRotaryExplicit(position_ids) ==
    /\ rp.position_ids # position_ids
    /\ rp' = [rp EXCEPT !.op = "apply",
                        !.position_ids = position_ids,
                        !.explicit = apply_rotary_pos_emb(rp.q, rp.k, rp.cos, rp.sin,
                                                          position_ids)]
    /\ UNCHANGED <<stackVars, rh, mlp, mlast, flag, nm, toolVars>>

NextApplyRotary ==
    \/ ApplyRotaryImplicit
    \/ \E position_ids \in PositionIds(rp.L) : ApplyRotaryExplicit(position_ids)

SpecApplyRotary == InitApplyRotary /\ [][NextApplyRotary]_vars

(***************************************************************************)
(* QWenMLPNet                                                              *)
(***************************************************************************)
\* The values of the environment variable FLAGS_enable_fused_ffn_qkv_pass:
\* not set, or set to one of these strings.
FlagValues == {"unset", "True", "true", "1", "False", "0"}

\* enable_fuse_ffn_qkv_pass() (lines 77-85) when os.getenv returns fl.
enable_fuse_ffn_qkv_pass(fl) == fl \in {"True", "true", "1"}

\* The branch both __init__ (line 300) and forward (line 314) take.
FusedBranch(fuse_attention_ffn, fl) ==
    fuse_attention_ffn /\ ~enable_fuse_ffn_qkv_pass(fl)

\* QWenMLPNet.__init__ (lines 296-305): the projections it creates.
QWenMLPNet_init(fuse_attention_ffn, fl) ==
    [op |-> "built", fuse_attention_ffn |-> fuse_attention_ffn,
     attrs |-> IF FusedBranch(fuse_attention_ffn, fl)
               THEN {"gate_up_fused_proj", "c_proj"}
               ELSE {"w1", "w2", "c_proj"}]

\* The projections a branch of forward reads, in the order it reads them.
BranchReads(fused) ==
    IF fused THEN <<"gate_up_fused_proj", "c_proj">> ELSE <<"w2", "w1", "c_proj">>

\* Reading the attributes reads in order on instance m: the ones referenced
\* up to and including the first that does not exist, where AttributeError
\* is raised.
RECURSIVE ReadAttrs(_, _, _)
ReadAttrs(m, reads, done) ==
    IF reads = <<>>
    THEN [status |-> "ok", referenced |-> done]
    ELSE IF Head(reads) \notin m.attrs
         THEN [status |-> "AttributeError", referenced |-> done \cup {Head(reads)}]
         ELSE ReadAttrs(m, Tail(reads), done \cup {Head(reads)})

\* QWenMLPNet.forward (lines 307-319) when os.getenv returns fl.
QWenMLPNet_forward(m, fl) ==
    ReadAttrs(m, BranchReads(FusedBranch(m.fuse_attention_ffn, fl)), {})

InitMlp ==
    /\ StackIdle
    /\ InitLayers

\* os.environ["FLAGS_enable_fused_ffn_qkv_pass"] = v, or its removal.
SetFlag(v) ==
    /\ flag # v
    /\ flag' = v
    /\ UNCHANGED <<stackVars, rp, rh, mlp, mlast, nm, toolVars>>

\* mlp = QWenMLPNet(config)
ConstructMlp(fuse_attention_ffn) ==
    /\ mlp' = QWenMLPNet_init(fuse_attention_ffn, flag)
    /\ mlast' = Idle
    /\ UNCHANGED <<stackVars, rp, rh, flag, nm, toolVars>>

\* mlp(hidden_states)
MlpForward ==
    /\ mlp.op = "built"
    /\ \E r \in {QWenMLPNet_forward(mlp, flag)} :
          mlast' = [op |-> "forward", status |-> r.status, flag |-> flag,
                    referenced |-> r.referenced]
    /\ UNCHANGED <<stackVars, rp, rh, mlp, flag, nm, toolVars>>

NextMlp ==
    \/ \E v \in FlagValues : SetFlag(v)
    \/ \E fuse_attention_ffn \in BOOLEAN : ConstructMlp(fuse_attention_ffn)
    \/ MlpForward

SpecMlp == InitMlp /\ [][NextMlp]_vars

(***************************************************************************)
(* Fused RMS norm: fusion_rms_norm and QWenRMSNormNet.forward              *)
(***************************************************************************)
\* The devices fusion_rms_norm distinguishes, and one it does not ("gpu").
NormDevices == Devices \cup {"mlu"}

\* The optional libraries a norm kernel may import at call time.
NormLibraries == {"fused_ln", "fast_ln", "paddle_xpu_nn"}

\* A call that ran the kernel `kernel`, whose code is the function
\* `primitive` of the library `library` ("none": part of paddle or of the
\* device plugin).
NormRan(kernel, library, primitive) ==
    [status |-> "ok", kernels |-> <<kernel>>, library |-> library,
     primitives |-> <<primitive>>, message |-> ""]

\* A call that raised e with the message msg, before any kernel ran.
NormRaised(e, library, msg) ==
    [status |-> e, kernels |-> <<>>, library |-> library, primitives |-> <<>>,
     message |-> msg]

\* paddle.utils.try_import(name) followed by the call of the library's
\* function: ImportError when the library is not installed.
TryImportAndRun(libs, kernel, library, primitive) ==
    IF library \in libs
    THEN NormRan(kernel, library, primitive)
    ELSE NormRaised("ImportError", library, library)

\* fusion_ops.rms_norm_fused (lines 134-140).
rms_norm_fused(libs, use_fast_ln) ==
    IF use_fast_ln
    THEN TryImportAndRun(libs, "rms_norm_fused", "fast_ln", "fast_rms_norm")
    ELSE TryImportAndRun(libs, "rms_norm_fused", "fused_ln", "fused_rms_norm")

\* Faulty variant of XpuNorm: without paddle_xpu_nn the call goes on to the
\* default kernel.
XpuNorm_falling_back(libs, use_fast_ln) ==
    IF "paddle_xpu_nn" \in libs
    THEN NormRan("xpu_rms_norm", "paddle_xpu_nn", "xpu_rms_norm")
    ELSE rms_norm_fused(libs, use_fast_ln)

\* The xpu branch of fusion_rms_norm (lines 154-162): the ImportError of
\* `import paddle_xpu_nn` is turned into NotImplementedError.
XpuNorm(libs, use_fast_ln) ==
    IF "paddle_xpu_nn" \in libs
    THEN NormRan("xpu_rms_norm", "paddle_xpu_nn", "xpu_rms_norm")
    ELSE NormRaised("NotImplementedError", "paddle_xpu_nn", "paddle_xpu")

\* fusion_rms_norm (lines 143-163).
fusion_rms_norm(device, libs, use_fast_ln) ==
    IF device = "npu" THEN NormRan("rms_norm_npu", "none", "rms_norm_npu")
    ELSE IF device = "mlu" THEN NormRan("rms_norm_mlu", "none", "rms_norm_mlu")
    ELSE IF device = "gcu" THEN NormRan("rms_norm_gcu", "none", "rms_norm_gcu")
    ELSE IF device = "intel_hpu"
         THEN NormRan("paddle.incubate.fused_rms_norm", "none", "fused_rms_norm")
    ELSE IF device = "xpu" THEN XpuNorm(libs, use_fast_ln)
    ELSE rms_norm_fused(libs, use_fast_ln)

\* modeling_network.rms_norm_fused (lines 807-809): fused_ln only.
qwen_rms_norm_fused(libs) ==
    TryImportAndRun(libs, "rms_norm_fused", "fused_ln", "fused_rms_norm")

\* QWenRMSNormNet.forward (lines 826-831): the fused kernel when
\* config.use_fused_rms_norm, else the generic computation _norm.
QWenRMSNormNet_forward(libs, use_fused_rms_norm) ==
    IF use_fused_rms_norm
    THEN qwen_rms_norm_fused(libs)
    ELSE NormRan("_norm", "none", "_norm")

\* The process runs on any of the devices; the libraries installed are an
\* input of each call.
InitNorm ==
    /\ training = TRUE
    /\ config = FixedConfig
    /\ h = Rep(NumLayers, QWenAttentionNet_init)
    /\ kv = NoCache
    /\ last = NoCall
    /\ rot = RotaryEmbedding_init
    /\ rlast = NoRotaryCall
    /\ env \in [version : {DevelopVersion}, device : NormDevices,
                 has_flashmask : {TRUE}, has_fused_rope : {TRUE}]
    /\ fconfig = DefaultFusionConfig
    /\ fa = NoFusionCall
    /\ fr = NoRopeCall
    /\ InitLayers

\* fusion_rms_norm(hidden_states, weight, variance_epsilon, use_fast_ln)
FusionRmsNorm(libs, use_fast_ln) ==
    /\ \E r \in {fusion_rms_norm(env.device, libs, use_fast_ln)} :
          nm' = [op |-> "fusion_rms_norm", libs |-> libs, use_fast_ln |-> use_fast_ln,
                 use_fused_rms_norm |-> TRUE, status |-> r.status,
                 kernels |-> r.kernels, library |-> r.library,
                 primitives |-> r.primitives, message |-> r.message]
    /\ UNCHANGED <<stackVars, rp, rh, mlp, mlast, flag, toolVars>>

\* QWenRMSNormNet(config)(x)
QWenRmsNorm(libs, use_fused_rms_norm) ==
    /\ \E r \in {QWenRMSNormNet_forward(libs, use_fused_rms_norm)} :
          nm' = [op |-> "QWenRMSNormNet.forward", libs |-> libs, use_fast_ln |-> FALSE,
                 use_fused_rms_norm |-> use_fused_rms_norm, status |-> r.status,
                 kernels |-> r.kernels, library |-> r.library,
                 primitives |-> r.primitives, message |-> r.message]
    /\ UNCHANGED <<stackVars, rp, rh, mlp, mlast, flag, toolVars>>

NextNorm ==
    \/ \E libs \in SUBSET NormLibraries, use_fast_ln \in BOOLEAN :
          FusionRmsNorm(libs, use_fast_ln)
    \/ \E libs \in SUBSET NormLibraries, use_fused_rms_norm \in BOOLEAN :
          QWenRmsNorm(libs, use_fused_rms_norm)

SpecNorm == InitNorm /\ [][NextNorm]_vars

(***************************************************************************)
(* GlobalNet: the attention mask of a forward call                         *)
(***************************************************************************)
\* A boolean tensor of shape [bs, heads, s, total] is a sequence of bs
\* sequences of heads matrices of s rows and total columns.

\* Faulty variant of Tril: the diagonal is masked too.
Tril_strict(bs, s) ==
    [b \in 1 .. bs |-> <<[i \in 1 .. s |-> [j \in 1 .. s |-> j < i]]>>]

\* paddle.tril(paddle.ones([bs, 1, s, s])) (line 713).
Tril(bs, s) ==
    [b \in 1 .. bs |-> <<[i \in 1 .. s |-> [j \in 1 .. s |-> j <= i]]>>]

\* Lines 714-717: past_length columns of ones before the triangle.
WithPast(m, past_length) ==
    [b \in 1 .. Len(m) |-> [hd \in 1 .. Len(m[b]) |-> [i \in 1 .. Len(m[b][hd]) |->
        [j \in 1 .. past_length |-> TRUE] \o m[b][hd][i]]]]

\* No padding mask (None).
NoPadding == [rank |-> 0, data |-> <<>>]

\* Lines 720-733: the padding mask as a 4-D boolean tensor. None becomes
\* ones; a 2-D mask [bs, total] is expanded over the queries; a 3-D mask
\* [bs, s, total] gets a head axis; a 4-D mask is taken as it is.
PaddingTensor(pm, bs, s, total) ==
    IF pm.rank = 0
    THEN [b \in 1 .. bs |-> <<[i \in 1 .. s |-> [j \in 1 .. total |-> TRUE]]>>]
    ELSE IF pm.rank = 2
    THEN [b \in 1 .. bs |-> <<[i \in 1 .. s |-> pm.data[b]]>>]
    ELSE IF pm.rank = 3
    THEN [b \in 1 .. bs |-> <<pm.data[b]>>]
    ELSE pm.data

\* casual_mask & padding_mask (line 735), broadcast over the head axis.
MaskAnd(c, pd) ==
    [b \in 1 .. Len(c) |-> [hd \in 1 .. Max(Len(c[b]), Len(pd[b])) |->
        [i \in 1 .. Len(c[b][1]) |-> [j \in 1 .. Len(c[b][1][i]) |->
            c[b][Min(hd, Len(c[b]))][i][j] /\ pd[b][Min(hd, Len(pd[b]))][i][j]]]]]

\* GlobalNet.get_masks (lines 711-737).
get_masks(bs, s, past_length, pm) ==
    MaskAnd(IF past_length > 0 THEN WithPast(Tril(bs, s), past_length) ELSE Tril(bs, s),
            PaddingTensor(pm, bs, s, s + past_length))

\* paddle.where(attention_mask, zero, neg_inf) (lines 745-748): 0 where
\* attention is allowed, finfo(bfloat16).min elsewhere.
MaskValues(m) ==
    [b \in 1 .. Len(m) |-> [hd \in 1 .. Len(m[b]) |-> [i \in 1 .. Len(m[b][hd]) |->
        [j \in 1 .. Len(m[b][hd][i]) |->
            IF m[b][hd][i][j] THEN "0" ELSE "bfloat16.min"]]]]

\* attention_mask.shape
MaskShape(m) == <<Len(m), Len(m[1]), Len(m[1][1]), Len(m[1][1][1])>>

\* The 2-D padding masks of the tokenizer: every batch row is padded on the
\* left by some number of keys, at least one key being a token.
Padding2D(bs, total) ==
    {[rank |-> 2, data |-> [b \in 1 .. bs |-> [j \in 1 .. total |-> j > pad[b]]]] :
        pad \in [1 .. bs -> 0 .. total - 1]}

\* A tensor [bs, heads, s, total] that masks the one entry at (b0, h0, i0, j0).
OneMasked(bs, heads, s, total, b0, h0, i0, j0) ==
    [b \in 1 .. bs |-> [hd \in 1 .. heads |-> [i \in 1 .. s |-> [j \in 1 .. total |->
        ~(b = b0 /\ hd = h0 /\ i = i0 /\ j = j0)]]]]

\* The 3-D padding masks [bs, s, total]: one entry masked.
Padding3D(bs, s, total) ==
    {[rank |-> 3, data |-> [b \in 1 .. bs |-> OneMasked(bs, 1, s, total, b0, 1, i0, j0)[b][1]]] :
        b0 \in 1 .. bs, i0 \in 1 .. s, j0 \in 1 .. total}

\* The 4-D padding masks [bs, heads, s, total], with one head or one per
\* attention head: one entry masked.
Padding4D(bs, s, total) ==
    UNION {{[rank |-> 4, data |-> OneMasked(bs, hn, s, total, b0, h0, i0, j0)] :
               b0 \in 1 .. bs, h0 \in 1 .. hn, i0 \in 1 .. s, j0 \in 1 .. total} :
           hn \in {1, NumHeads}}

\* The calls of GlobalNet.forward while a stack of MaskBatch rows runs on up
\* to MaskSeq new tokens after up to MaskPast cached ones.
MaskInputs ==
    UNION {{[bs |-> bs, s |-> sq, past_length |-> pl, padding |-> pm] :
               pm \in {NoPadding} \cup Padding2D(bs, sq + pl) \cup Padding3D(bs, sq, sq + pl)
                       \cup Padding4D(bs, sq, sq + pl)} :
           bs \in 1 .. MaskBatch, sq \in 1 .. MaskSeq, pl \in 0 .. MaskPast}

InitMask ==
    /\ StackIdle
    /\ LayersIdle
    /\ gm \in {[op |-> "input", bs |-> i.bs, s |-> i.s, past_length |-> i.past_length,
                 padding |-> i.padding, mask |-> <<>>, shape |-> <<>>] : i \in MaskInputs}
    /\ cr = Idle
    /\ pdc = Idle
    /\ dl = Idle
    /\ dn = Idle

\* attention_mask, position_ids = self.global_layer(...) (lines 490-492)
GlobalNetForward ==
    /\ gm.op = "input"
    /\ \E m \in {MaskValues(get_masks(gm.bs, gm.s, gm.past_length, gm.padding))} :
          gm' = [gm EXCEPT !.op = "forward", !.mask = m, !.shape = MaskShape(m)]
    /\ UNCHANGED <<stackVars, coreLayerVars, cr, pdc, dl, dn>>

NextMask == GlobalNetForward

SpecMask == InitMask /\ [][NextMask]_vars

(***************************************************************************)
(* QWenPretrainingCriterionNet                                             *)
(***************************************************************************)
\* A position of the flattened batch: whether its label is ignore_index, and
\* the cross entropy of its logits against its label (an integer number of
\* units; cross entropy is never negative and is 0 when the softmax gives
\* the label probability 1).
Positions == [ignored : BOOLEAN, entropy : 0 .. MaxEntropy]

\* paddle.nn.CrossEntropyLoss(reduction="none", ignore_index=...) (lines 593,
\* 605): the loss per position, 0 where the label is ignore_index.
RECURSIVE CrossEntropyLoss(_)
CrossEntropyLoss(ps) ==
    IF ps = <<>> THEN <<>>
    ELSE <<IF Head(ps).ignored THEN 0 ELSE Head(ps).entropy>> \o CrossEntropyLoss(Tail(ps))

\* paddle.masked_select(masked_lm_loss, masked_lm_loss > 0) (line 607).
RECURSIVE SelectPositive(_)
SelectPositive(xs) ==
    IF xs = <<>> THEN <<>>
    ELSE (IF Head(xs) > 0 THEN <<Head(xs)>> ELSE <<>>) \o SelectPositive(Tail(xs))

RECURSIVE Sum(_)
Sum(xs) == IF xs = <<>> THEN 0 ELSE Head(xs) + Sum(Tail(xs))

\* paddle.mean(xs) (line 608) as the fraction num / den; the mean of no
\* element is NaN, den = 0.
Mean(xs) == [num |-> Sum(xs), den |-> Len(xs)]

\* QWenPretrainingCriterionNet.forward (lines 596-610).
Criterion_forward(ps) == Mean(SelectPositive(CrossEntropyLoss(ps)))

\* The batches: up to MaxPositions positions.
CriterionInputs == UNION {[1 .. n -> Positions] : n \in 1 .. MaxPositions}

InitCriterion ==
    /\ StackIdle
    /\ LayersIdle
    /\ gm = Idle
    /\ cr \in {[op |-> "input", positions |-> ps, loss |-> Mean(<<>>)] : ps \in CriterionInputs}
    /\ pdc = Idle
    /\ dl = Idle
    /\ dn = Idle

\* loss = criterion(prediction_scores, masked_lm_labels)
CriterionForward ==
    /\ cr.op = "input"
    /\ cr' = [cr EXCEPT !.op = "forward", !.loss = Criterion_forward(cr.positions)]
    /\ UNCHANGED <<stackVars, coreLayerVars, gm, pdc, dl, dn>>

NextCriterion == CriterionForward

SpecCriterion == InitCriterion /\ [][NextCriterion]_vars

(***************************************************************************)
(* get_static_model_on_pdc                                                 *)
(***************************************************************************)
\* The local processes of a call: process p has FLAGS_selected_gpus = p, and
\* process 0 is the coordinator.
Procs(world_size) == 0 .. world_size - 1

\* What is at flash_path when the call starts: nothing, a model that
\* pdc_flash_do_check rejects, or one it accepts.
FlashStates == {"absent", "invalid", "valid"}

\* The results of pdc_tool.pdc_download and pdc_tool.pdc_backup_to_flash_device
\* (PDCErrorCode): Success, LocalPathExist, or any other code.
PdcCodes == {"Success", "LocalPathExist", "Failed"}

\* The calls: every process is at the top of get_static_model_on_pdc.
PdcCalls ==
    {[op |-> "run", enable_flash_device |-> e, flash_available |-> a, world_size |-> n,
      flash |-> f, persistent_exists |-> x,
      pc |-> [q \in Procs(n) |-> "start"], ret |-> [q \in Procs(n) |-> "none"],
      arrived |-> {}, need_download_from_remote |-> TRUE, need_backup_to_flash |-> FALSE,
      checked |-> FALSE, backed_up |-> FALSE, downloaded |-> FALSE] :
        e \in BOOLEAN, a \in BOOLEAN, n \in 1 .. MaxProcs, f \in FlashStates, x \in BOOLEAN}

\* os.path.exists(flash_path)
FlashExists == pdc.flash # "absent"

\* Lines 545-548: a process with device_id != 0 goes to dist.barrier().
PdcWorkerWait(p) ==
    /\ pdc.op = "run" /\ p \in Procs(pdc.world_size) /\ p # 0
    /\ pdc.pc[p] = "start"
    /\ pdc' = [pdc EXCEPT !.pc[p] = "barrier", !.arrived = @ \cup {p}]
    /\ UNCHANGED <<stackVars, coreLayerVars, gm, cr, dl, dn>>

\* Step 1 (lines 551-567) of the coordinator.
PdcFlashCheck ==
    /\ pdc.op = "run" /\ pdc.pc[0] = "start"
    /\ pdc' = IF pdc.enable_flash_device /\ pdc.flash_available
              THEN IF pdc.flash = "valid"
                   THEN [pdc EXCEPT !.pc[0] = "step2", !.need_download_from_remote = FALSE,
                                    !.checked = TRUE]
                   ELSE [pdc EXCEPT !.pc[0] = "step2", !.need_backup_to_flash = TRUE]
              ELSE [pdc EXCEPT !.pc[0] = "step2"]
    /\ UNCHANGED <<stackVars, coreLayerVars, gm, cr, dl, dn>>

\* Step 2 (lines 569-573) and download_from_pdc (lines 502-514): any result
\* but Success and LocalPathExist raises RuntimeError out of the call.
PdcDownload(result) ==
    /\ pdc.op = "run" /\ pdc.pc[0] = "step2"
    /\ result = "LocalPathExist" => pdc.persistent_exists
    /\ pdc' = IF ~pdc.need_download_from_remote
              THEN [pdc EXCEPT !.pc[0] = "step3"]
              ELSE IF result \in {"Success", "LocalPathExist"}
                   THEN [pdc EXCEPT !.pc[0] = "step3", !.persistent_exists = TRUE,
                                    !.downloaded = TRUE]
                   ELSE [pdc EXCEPT !.pc[0] = "raised"]
    /\ UNCHANGED <<stackVars, coreLayerVars, gm, cr, dl, dn>>

\* Step 3 (lines 575-581): a failed backup is logged and the call goes on.
PdcBackup(result) ==
    /\ pdc.op = "run" /\ pdc.pc[0] = "step3"
    /\ pdc' = IF pdc.enable_flash_device /\ pdc.need_backup_to_flash /\ result = "Success"
              THEN [pdc EXCEPT !.pc[0] = "step4", !.flash = "valid", !.backed_up = TRUE]
              ELSE [pdc EXCEPT !.pc[0] = "step4"]
    /\ UNCHANGED <<stackVars, coreLayerVars, gm, cr, dl, dn>>

\* Step 4 (lines 584-586): the coordinator goes to dist.barrier() when
\* dist.get_world_size() > 1.
PdcCoordinatorWait ==
    /\ pdc.op = "run" /\ pdc.pc[0] = "step4"
    /\ pdc' = IF pdc.world_size > 1
              THEN [pdc EXCEPT !.pc[0] = "barrier", !.arrived = @ \cup {0}]
              ELSE [pdc EXCEPT !.pc[0] = "released"]
    /\ UNCHANGED <<stackVars, coreLayerVars, gm, cr, dl, dn>>

\* dist.barrier() returns in a process once every process has entered it.
PdcRelease(p) ==
    /\ pdc.op = "run" /\ p \in Procs(pdc.world_size)
    /\ pdc.pc[p] = "barrier"
    /\ pdc.arrived = Procs(pdc.world_size)
    /\ pdc' = [pdc EXCEPT !.pc[p] = "released"]
    /\ UNCHANGED <<stackVars, coreLayerVars, gm, cr, dl, dn>>

\* Lines 549 and 587-592: the path returned.
PdcReturn(p) ==
    /\ pdc.op = "run" /\ p \in Procs(pdc.world_size)
    /\ pdc.pc[p] = "released"
    /\ pdc' = [pdc EXCEPT !.pc[p] = "returned",
                          !.ret[p] = IF pdc.enable_flash_device /\ FlashExists
                                     THEN "flash_path" ELSE "persistent_path"]
    /\ UNCHANGED <<stackVars, coreLayerVars, gm, cr, dl, dn>>

InitPdc ==
    /\ StackIdle
    /\ LayersIdle
    /\ gm = Idle
    /\ cr = Idle
    /\ pdc \in PdcCalls
    /\ dl = Idle
    /\ dn = Idle

NextPdc ==
    \/ \E p \in Procs(MaxProcs) : PdcWorkerWait(p)
    \/ PdcFlashCheck
    \/ \E result \in PdcCodes : PdcDownload(result)
    \/ \E result \in PdcCodes \ {"LocalPathExist"} : PdcBackup(result)
    \/ PdcCoordinatorWait
    \/ \E p \in Procs(MaxProcs) : PdcRelease(p)
    \/ \E p \in Procs(MaxProcs) : PdcReturn(p)

SpecPdc == InitPdc /\ [][NextPdc]_vars

\* Every process is an operating-system process of its own and keeps running:
\* a step that stays possible is eventually taken.
SpecPdcFair == SpecPdc /\ WF_vars(NextPdc)

(***************************************************************************)
(* get_path_from_url_with_filelock                                         *)
(***************************************************************************)
\* Paths and urls are sequences of names and "/" separators.
\* osp.split(path)[-1]: what follows the last separator.
RECURSIVE SplitLast(_)
SplitLast(path) ==
    IF path = <<>> \/ path[Len(path)] = "/" THEN <<>>
    ELSE SplitLast(SubSeq(path, 1, Len(path) - 1)) \o <<path[Len(path)]>>

\* osp.join(dir, name), name not absolute: one separator between the two
\* unless dir already ends with one.
Join(dir, name) == IF dir[Len(dir)] = "/" THEN dir \o name ELSE dir \o <<"/">> \o name

\* _map_path (lines 113-117), and fullname in _download (lines 190-191).
MapPath(url, root_dir) == Join(root_dir, SplitLast(url))

\* tmp_fullname = fullname + "_tmp" (line 208)
TmpName(fullname) == fullname \o <<"_tmp">>

\* Lines 170-175: the lock file; md5 gives different strings different names,
\* so the name is modelled by the string url + root_dir itself.
LockFilePath(url, root_dir) == Join(Join(root_dir, <<".lock">>), <<url \o root_dir>>)

\* tarfile.is_tarfile / zipfile.is_zipfile (line 143), by the file's name.
IsArchive(fullpath) == fullpath[Len(fullpath)] \in {"f.tar"}

Callers == 1 .. MaxCallers
Urls == {<<"a", "/", "f.tar">>, <<"b", "/", "f.tar">>, <<"a", "/", "g">>}
RootDirs == {<<"d">>, <<"d", "/">>}
Targets == {MapPath(u, r) : u \in Urls, r \in RootDirs}

\* Concurrent callers, each at the top of get_path_from_url_with_filelock
\* with the default md5sum, check_exist and timeout.
DlCalls ==
    {[op |-> "run", url |-> us, root_dir |-> rs, files |-> fs, tmps |-> {}, locks |-> {},
      pc |-> [c \in Callers |-> "start"], result |-> [c \in Callers |-> <<>>],
      fetches |-> [c \in Callers |-> 0]] :
        us \in [Callers -> Urls], rs \in [Callers -> RootDirs], fs \in SUBSET Targets}

FullPath(c) == MapPath(dl.url[c], dl.root_dir[c])
LockOf(c) == LockFilePath(dl.url[c], dl.root_dir[c])

\* Line 177: FileLock(lock_file_path, timeout=-1) is entered once no other
\* process holds the lock file.
DlAcquire(c) ==
    /\ dl.op = "run" /\ c \in Callers /\ dl.pc[c] = "start"
    /\ LockOf(c) \notin dl.locks
    /\ dl' = [dl EXCEPT !.pc[c] = "held", !.locks = @ \cup {LockOf(c)}]
    /\ UNCHANGED <<stackVars, coreLayerVars, gm, cr, pdc, dn>>

\* get_path_from_url, lines 138-141: the file is found or _download is entered.
DlExists(c) ==
    /\ dl.op = "run" /\ c \in Callers /\ dl.pc[c] = "held"
    /\ dl' = IF FullPath(c) \in dl.files
             THEN [dl EXCEPT !.pc[c] = "got"]
             ELSE [dl EXCEPT !.pc[c] = "loop"]
    /\ UNCHANGED <<stackVars, coreLayerVars, gm, cr, pdc, dn>>

\* _download, lines 194-213, md5sum None: the loop test, and in the loop
\* requests.get and the opening of tmp_fullname for writing; a status code
\* other than 200 raises RuntimeError.
DlRequest(c, status_code) ==
    /\ dl.op = "run" /\ c \in Callers /\ dl.pc[c] = "loop"
    /\ dl' = IF FullPath(c) \in dl.files
             THEN [dl EXCEPT !.pc[c] = "got"]
             ELSE IF dl.fetches[c] >= DOWNLOAD_RETRY_LIMIT \/ status_code # 200
                  THEN [dl EXCEPT !.pc[c] = "raising"]
                  ELSE [dl EXCEPT !.pc[c] = "writing", !.fetches[c] = @ + 1,
                                  !.tmps = @ \cup {TmpName(FullPath(c))}]
    /\ UNCHANGED <<stackVars, coreLayerVars, gm, cr, pdc, dn>>

\* Line 221, shutil.move(tmp_fullname, fullname), after the chunks are
\* written: FileNotFoundError when tmp_fullname is no longer there.
DlMove(c) ==
    /\ dl.op = "run" /\ c \in Callers /\ dl.pc[c] = "writing"
    /\ dl' = IF TmpName(FullPath(c)) \in dl.tmps
             THEN [dl EXCEPT !.pc[c] = "loop", !.tmps = @ \ {TmpName(FullPath(c))},
                             !.files = @ \cup {FullPath(c)}]
             ELSE [dl EXCEPT !.pc[c] = "raising"]
    /\ UNCHANGED <<stackVars, coreLayerVars, gm, cr, pdc, dn>>

\* Lines 143-144: an archive is decompressed next to itself.
DlIsArchive(c) ==
    /\ dl.op = "run" /\ c \in Callers /\ dl.pc[c] = "got"
    /\ dl' = IF IsArchive(FullPath(c))
             THEN [dl EXCEPT !.pc[c] = "decompress"]
             ELSE [dl EXCEPT !.pc[c] = "leaving", !.result[c] = FullPath(c)]
    /\ UNCHANGED <<stackVars, coreLayerVars, gm, cr, pdc, dn>>

\* _decompress (lines 252-270): the archive stays where it is.
DlDecompress(c) ==
    /\ dl.op = "run" /\ c \in Callers /\ dl.pc[c] = "decompress"
    /\ dl' = [dl EXCEPT !.pc[c] = "leaving",
                        !.result[c] = Join(dl.root_dir[c], <<"f">>)]
    /\ UNCHANGED <<stackVars, coreLayerVars, gm, cr, pdc, dn>>

\* The end of the with block of line 177, on return and on an exception.
DlRelease(c) ==
    /\ dl.op = "run" /\ c \in Callers /\ dl.pc[c] \in {"leaving", "raising"}
    /\ dl' = [dl EXCEPT !.pc[c] = IF dl.pc[c] = "leaving" THEN "returned" ELSE "raised",
                        !.locks = @ \ {LockOf(c)}]
    /\ UNCHANGED <<stackVars, coreLayerVars, gm, cr, pdc, dn>>

InitFileLock ==
    /\ StackIdle
    /\ LayersIdle
    /\ gm = Idle
    /\ cr = Idle
    /\ pdc = Idle
    /\ dl \in DlCalls
    /\ dn = Idle

NextFileLock ==
    \/ \E c \in Callers : DlAcquire(c)
    \/ \E c \in Callers : DlExists(c)
    \/ \E c \in Callers, status_code \in {200, 404} : DlRequest(c, status_code)
    \/ \E c \in Callers : DlMove(c)
    \/ \E c \in Callers : DlIsArchive(c)
    \/ \E c \in Callers : DlDecompress(c)
    \/ \E c \in Callers : DlRelease(c)

SpecFileLock == InitFileLock /\ [][NextFileLock]_vars

(***************************************************************************)
(* _download                                                               *)
(***************************************************************************)
\* The content of fullname: no file, a file whose md5 is the expected one, or
\* a file with another md5.
FileStates == {"absent", "good", "bad"}

\* _md5check (lines 226-240) of an existing file.
Md5Check(file, md5sum) == md5sum = "None" \/ file = "good"

\* The test of the while loop (line 194).
LoopTest(file, md5sum) == ~(file # "absent" /\ Md5Check(file, md5sum))

\* What requests.get (line 201) comes back with: a response with a status
\* code, or an exception of requests.
Responses == {"200", "404", "ConnectionError"}

\* What iterating req.iter_content (lines 211-220) delivers next: one more
\* chunk, the end of a body that is the expected bytes or other bytes, or an
\* exception of requests in the middle.
StreamEvents == {"chunk", "good", "bad", "ConnectionError"}

\* The calls: _download(url, path, md5sum) at its first loop test, with what
\* is at fullname and at tmp_fullname before the call.
DnCalls ==
    {[op |-> "run", md5sum |-> m, file |-> f, tmp |-> t, pc |-> "loop", retry_cnt |-> 0,
      fetches |-> 0, written |-> 0, error |-> "none", moved |-> <<>>] :
        m \in {"None", "given"}, f \in FileStates, t \in {"absent", "partial"}}

\* Lines 194-198: the loop test and the retry count; requests.get is called
\* when the loop is entered.
DnLoop ==
    /\ dn.op = "run" /\ dn.pc = "loop"
    /\ dn' = IF ~LoopTest(dn.file, dn.md5sum)
             THEN [dn EXCEPT !.pc = "returned"]
             ELSE IF dn.retry_cnt < DOWNLOAD_RETRY_LIMIT
                  THEN [dn EXCEPT !.pc = "requesting", !.retry_cnt = @ + 1, !.fetches = @ + 1]
                  ELSE [dn EXCEPT !.pc = "raised", !.error = "RuntimeError"]
    /\ UNCHANGED <<stackVars, coreLayerVars, gm, cr, pdc, dl>>

\* Lines 201-210: requests.get(url, stream=True), which has no timeout,
\* comes back; a status code other than 200 raises RuntimeError, an exception
\* of requests goes up, and after a 200 tmp_fullname is opened for writing.
DnResponse(response) ==
    /\ dn.op = "run" /\ dn.pc = "requesting"
    /\ dn' = CASE response = "200" -> [dn EXCEPT !.pc = "writing", !.tmp = "partial",
                                                 !.written = 0]
               [] response = "404" -> [dn EXCEPT !.pc = "raised", !.error = "RuntimeError"]
               [] OTHER -> [dn EXCEPT !.pc = "raised", !.error = response]
    /\ UNCHANGED <<stackVars, coreLayerVars, gm, cr, pdc, dl>>

\* Lines 210-220: the chunks of the response are written to tmp_fullname
\* one by one until the body ends.
DnWrite(event) ==
    /\ dn.op = "run" /\ dn.pc = "writing"
    /\ event = "chunk" => dn.written < MaxChunks
    /\ dn' = CASE event = "chunk" -> [dn EXCEPT !.written = @ + 1]
               [] event = "ConnectionError" -> [dn EXCEPT !.pc = "raised", !.error = event]
               [] OTHER -> [dn EXCEPT !.pc = "moving", !.tmp = event]
    /\ UNCHANGED <<stackVars, coreLayerVars, gm, cr, pdc, dl>>

\* Line 221: shutil.move(tmp_fullname, fullname).
DnMove ==
    /\ dn.op = "run" /\ dn.pc = "moving"
    /\ dn' = [dn EXCEPT !.pc = "loop", !.file = dn.tmp, !.tmp = "absent",
                        !.moved = Append(@, dn.tmp)]
    /\ UNCHANGED <<stackVars, coreLayerVars, gm, cr, pdc, dl>>

InitDownload ==
    /\ StackIdle
    /\ LayersIdle
    /\ gm = Idle
    /\ cr = Idle
    /\ pdc = Idle
    /\ dl = Idle
    /\ dn \in DnCalls

NextDownload ==
    \/ DnLoop
    \/ \E response \in Responses : DnResponse(response)
    \/ \E event \in StreamEvents : DnWrite(event)
    \/ DnMove

SpecDownload == InitDownload /\ [][NextDownload]_vars

\* The process itself keeps running, so its own steps are taken; the server
\* is not bound to answer, and requests.get is called without a timeout.
SpecDownloadFair == SpecDownload /\ WF_vars(DnLoop) /\ WF_vars(DnMove)

(***************************************************************************)
(* Properties                                                              *)
(***************************************************************************)
IsPrefix(p, q) == Len(p) <= Len(q) /\ SubSeq(q, 1, Len(p)) = p

\* The last call of the stack returned normally.
Returned == last.op = "forward" /\ last.status = "ok"

\* The length of the past the last call supplied to block i.
PastLen(i) == IF last.past.some THEN Len(last.past.items[i].key) ELSE 0

\* C1: when caching is in effect, the cache the stack returns has one entry
\* per decoder block and entry i is the (key, value) pair of block i, never
\* its attention weights, whatever output_attentions is.
C1_CacheHoldsKeyValuePairs ==
    Returned /\ last.use_cache_eff =>
        /\ last.past_key_values.some
        /\ Len(last.past_key_values.items) = NumLayers
        /\ \A i \in Layers :
              /\ last.past_key_values.items[i].kind = "kv"
              /\ last.past_key_values.items[i].block = i

\* C2: the cache a decode step returns holds, for every block, a key and a
\* value whose length is the sum of all input lengths fed so far, with the
\* cache that was supplied as an unchanged prefix.
C2_CacheGrowsByConcatenation ==
    Returned /\ last.use_cache_eff =>
        /\ last.past_key_values.some
        /\ \A i \in Layers :
              LET e == last.past_key_values.items[i]
              IN  /\ e.kind = "kv"
                  /\ Len(e.key) = last.past_total + last.q_len
                  /\ Len(e.value) = last.past_total + last.q_len
                  /\ last.past.some =>
                        /\ IsPrefix(last.past.items[i].key, e.key)
                        /\ IsPrefix(last.past.items[i].value, e.value)

\* C3 as stated: in every call that supplies a past cache, the alpha that
\* rotates the new keys is the alpha that rotated every key of that cache.
C3_AlphaMatchesCachedKeys ==
    Returned =>
        \A i \in Layers : \A j \in 1 .. PastLen(i) :
            last.past.items[i].key[j] = last.ntk_alpha[i]

\* C3 amended: a call that supplies a non-empty past cache uses the module's
\* memoized alpha and leaves it unchanged; that alpha is the one that rotated
\* every key of the supplied cache whenever no call changed the memoized
\* alpha since the cache was returned.
C3_AlphaFrozenWhileCacheCurrent ==
    Returned =>
        \A i \in Layers :
            PastLen(i) > 0 =>
                /\ last.ntk_alpha[i] = last.ntk_before[i]
                /\ last.ntk_after[i] = last.ntk_before[i]
                /\ last.past_current =>
                      \A j \in 1 .. PastLen(i) :
                          last.past.items[i].key[j] = last.ntk_alpha[i]

\* C3 witness: a decode step on a current cache whose keys were rotated with
\* an extrapolating alpha, which the step reuses.
C3_Witness ==
    /\ Returned
    /\ last.past_current
    /\ PastLen(1) > 0
    /\ last.ntk_alpha[1] > 1
    /\ last.past.items[1].key[1] = last.ntk_alpha[1]

\* C6 as stated: every call whose key/value length is at most the trained
\* length passes ntk_alpha = 1 to the rotary embedding.
C6_AlphaOneWithinTrainedLength ==
    Returned =>
        \A i \in Layers :
            PastLen(i) + last.q_len <= SeqLength => last.ntk_alpha[i] = 1

\* C6 amended: a call that is not in training mode and has no cached history
\* (key/value length equal to the input length), of length at most the
\* trained length, passes ntk_alpha = 1.
C6_AlphaOneOnFreshInferenceCall ==
    Returned =>
        \A i \in Layers :
            ~last.training /\ PastLen(i) = 0 /\ last.q_len <= SeqLength =>
                last.ntk_alpha[i] = 1

\* C6 witness: a fresh inference call within the trained length that brings
\* a memoized alpha above 1 back to 1.
C6_Witness ==
    /\ Returned
    /\ ~last.training
    /\ PastLen(1) = 0
    /\ last.q_len < SeqLength
    /\ last.ntk_before[1] > 1
    /\ last.ntk_alpha[1] = 1

\* max(1, 2^ceil(log2(L / T) + 1) - 1), characterised without logarithms:
\* 2^m - 1 for the m >= 1 with 2^(m - 1) >= L / T > 2^(m - 2).
C7_Expected(L, T) ==
    LET m == CHOOSE n \in 1 .. L + 1 :
                 /\ Pow2(n - 1) * T >= L
                 /\ n > 1 => Pow2(n - 2) * T < L
    IN  Pow2(m) - 1

\* The alpha the claim lists for L = k * trained_length, k = 1 .. 4.
C7_AtMultiples == <<1, 3, 7, 7>>

\* C7 as stated: every non-training call without cache reuse computes
\* alpha = max(1, 2^ceil(log2(L / trained_length) + 1) - 1) and memoizes it.
C7_FreshCallComputesAlpha ==
    Returned =>
        \A i \in Layers :
            ~last.training /\ PastLen(i) = 0 =>
                /\ last.ntk_alpha[i] = C7_Expected(last.q_len, SeqLength)
                /\ last.ntk_after[i] = last.ntk_alpha[i]

\* C7 amended: with config.use_dynamic_ntk set, every non-training call
\* without cache reuse computes that alpha and memoizes it; it is 1, 3, 7, 7
\* at L = 1, 2, 3, 4 times the trained length and no shorter input gets a
\* larger alpha.
C7_FreshCallComputesAlphaWhenDynamic ==
    Returned /\ config.use_dynamic_ntk =>
        \A i \in Layers :
            ~last.training /\ PastLen(i) = 0 =>
                /\ last.ntk_alpha[i] = C7_Expected(last.q_len, SeqLength)
                /\ last.ntk_after[i] = last.ntk_alpha[i]
                /\ \A k \in 1 .. 4 :
                      last.q_len = k * SeqLength => last.ntk_alpha[i] = C7_AtMultiples[k]
                /\ \A L \in 1 .. last.q_len :
                      compute_ntk_alpha(L, SeqLength) <= last.ntk_alpha[i]

\* C7 witness: an inference call on a prompt of three times the trained
\* length, which memoizes alpha = 7.
C7_Witness ==
    /\ Returned
    /\ config.use_dynamic_ntk
    /\ ~last.training
    /\ PastLen(1) = 0
    /\ last.q_len = 3 * SeqLength
    /\ last.ntk_alpha[1] = 7
    /\ h[1].ntk_cached = 7

\* C8: the memoized alpha starts at 1 and is changed only by a call of the
\* stack that is not in training mode and has no cached history; a call in
\* training mode or with a past of non-zero length leaves it unchanged and
\* passes exactly the memoized value.
C8_MemoChangedOnlyByFreshInferenceCall ==
    /\ last.op = "none" => \A i \in Layers : h[i].ntk_cached = InitNtkCached
    /\ Returned =>
          /\ NtkOf(h) = last.ntk_after
          /\ \A i \in Layers :
                /\ last.ntk_after[i] # last.ntk_before[i] =>
                      ~last.training /\ PastLen(i) = 0
                /\ last.training \/ PastLen(i) > 0 =>
                      /\ last.ntk_after[i] = last.ntk_before[i]
                      /\ last.ntk_alpha[i] = last.ntk_before[i]

\* C8 witness: a call in training mode on a long prompt that passes a
\* memoized alpha above 1 and leaves it unchanged.
C8_Witness ==
    /\ Returned
    /\ last.training
    /\ PastLen(1) = 0
    /\ last.q_len <= SeqLength
    /\ last.ntk_before[1] > 1
    /\ last.ntk_alpha[1] = last.ntk_before[1]
    /\ h[1].ntk_cached = last.ntk_before[1]

\* The last direct call of the rotary embedding returned its tables.
RotaryReturned == rlast.op = "forward" /\ rlast.status = "ok"

\* C4: at every read of the tables the cached length covers the requested
\* length offset + max_seq_len, the cached alpha is the alpha of the call,
\* and the cos / sin slices returned come from tables built with that alpha.
C4_TablesMatchRequest ==
    RotaryReturned =>
        /\ rot.seq_len_cached >= rlast.offset + rlast.max_seq_len
        /\ rot.ntk_alpha_cached = rlast.ntk_alpha
        /\ rot.cos_cached.alpha = rlast.ntk_alpha
        /\ rot.sin_cached.alpha = rlast.ntk_alpha
        /\ rot.cos_cached.len = rot.seq_len_cached
        /\ rot.sin_cached.len = rot.seq_len_cached
        /\ rlast.cos = [fn |-> "cos", alpha |-> rlast.ntk_alpha,
                        start |-> rlast.offset, len |-> rlast.max_seq_len]
        /\ rlast.sin = [fn |-> "sin", alpha |-> rlast.ntk_alpha,
                        start |-> rlast.offset, len |-> rlast.max_seq_len]

\* C4 witness: a read with a new alpha on a cache that was long enough, so
\* that only the alpha forces the rebuild.
C4_Witness ==
    /\ RotaryReturned
    /\ rlast.before.cos_cached # Unset
    /\ rlast.before.ntk_alpha_cached # rlast.ntk_alpha
    /\ rlast.before.seq_len_cached >= rlast.offset + rlast.max_seq_len
    /\ rlast.cos.alpha = rlast.ntk_alpha

\* C5: a call whose rebuild fails leaves inv_freq, the cached length, the
\* cached alpha and both tables at their values before the call, and every
\* later read returns tables that match the cached length and alpha.
C5_FailedRebuildLeavesCacheUntouched ==
    /\ rlast.status = "raised" => rot = rlast.before
    /\ RotaryReturned =>
          /\ rlast.cos.alpha = rot.ntk_alpha_cached
          /\ rlast.sin.alpha = rot.ntk_alpha_cached
          /\ rot.cos_cached.len = rot.seq_len_cached
          /\ rot.sin_cached.len = rot.seq_len_cached

\* C9: update_cos_sin_cache rebuilds exactly when the requested length
\* exceeds the cached length or the alpha differs from the cached alpha; a
\* rebuild caches the alpha and the length max(2 * requested, 16) with both
\* tables; otherwise nothing changes.
C9_RebuildExactlyWhenStale ==
    RotaryReturned =>
        LET seqlen == rlast.max_seq_len + rlast.offset
            stale  == \/ seqlen > rlast.before.seq_len_cached
                      \/ rlast.ntk_alpha # rlast.before.ntk_alpha_cached
            n      == IF 2 * seqlen >= MinSeqLenCached THEN 2 * seqlen ELSE MinSeqLenCached
        IN  /\ stale <=> rot # rlast.before
            /\ stale =>
                  /\ rot.ntk_alpha_cached = rlast.ntk_alpha
                  /\ rot.seq_len_cached = n
                  /\ rot.inv_freq = rlast.ntk_alpha
                  /\ rot.cos_cached = [fn |-> "cos", len |-> n, alpha |-> rlast.ntk_alpha]
                  /\ rot.sin_cached = [fn |-> "sin", len |-> n, alpha |-> rlast.ntk_alpha]

\* C9 witness: a rebuild of built tables forced by the length alone, caching
\* twice the requested length.
C9_Witness ==
    /\ RotaryReturned
    /\ rlast.before.cos_cached # Unset
    /\ rlast.ntk_alpha = rlast.before.ntk_alpha_cached
    /\ rlast.max_seq_len + rlast.offset > rlast.before.seq_len_cached
    /\ rot.seq_len_cached = 2 * (rlast.max_seq_len + rlast.offset)
    /\ rot.seq_len_cached > MinSeqLenCached

\* The last call of fusion_flash_attention returned normally.
FusionReturned == fa.op = "fusion_flash_attention" /\ fa.status = "ok"

\* The kernel the priority list of C10 selects: vendor kernel by device,
\* then ring attention, then a sparse-mask kernel, then the generic kernel.
C10_Listed ==
    IF env.device = "npu" THEN {"flash_attention_npu"}
    ELSE IF env.device = "gcu" THEN {"fused_sdp_flash_attention_gcu"}
    ELSE IF env.device = "intel_hpu" THEN {"fused_dot_product_attention"}
    ELSE IF fconfig.context_parallel_degree > 1 THEN {"RingFlashAttention"}
    ELSE IF fa.startend THEN {"flashmask_attention", "flash_attention_with_sparse_mask"}
    ELSE {"scaled_dot_product_attention"}

\* C10 as stated: every successful call of fusion_flash_attention runs
\* exactly one kernel, the one the first matching rule of the priority list
\* (npu, gcu, intel_hpu, context parallel, start/end mask, generic) selects.
C10_OneKernelByPriority ==
    FusionReturned =>
        /\ Len(fa.kernels) = 1
        /\ fa.kernels[1].name \in C10_Listed

\* C10 amended: every successful call runs exactly one kernel; when the
\* paddle version is "0.0.0" or above "2.5.2" it is the one the priority
\* list selects, and on the versions up to "2.5.2" it is flash_attention,
\* whatever the device.
C10_OneKernelByPriorityOnCurrentVersions ==
    FusionReturned =>
        /\ Len(fa.kernels) = 1
        /\ IF env.version = DevelopVersion \/ ~StrLeq(env.version, LegacyVersion)
           THEN fa.kernels[1].name \in C10_Listed
           ELSE fa.kernels[1].name = "flash_attention"

\* C10 witness: on a device without a vendor kernel and a current version, a
\* call with a start/end mask and context parallelism runs ring attention.
C10_Witness ==
    /\ FusionReturned
    /\ env.device = "gpu"
    /\ env.version # LegacyVersion
    /\ fconfig.context_parallel_degree > 1
    /\ fa.startend
    /\ fa.kernels = <<Kernel("RingFlashAttention", TRUE, "none")>>

\* The last call of fusion_rope returned normally.
RopeReturned == fr.op = "fusion_rope" /\ fr.status = "ok"

\* C11: with context_parallel_degree > 1 on a device other than gpu, both
\* fusion_flash_attention and fusion_rope fail with an error before any
\* kernel runs, and ring attention runs on gpu only.
C11_ContextParallelOnlyOnGpu ==
    /\ fa.op = "fusion_flash_attention" /\ fconfig.context_parallel_degree > 1
          /\ env.device # "gpu" =>
             fa.status # "ok" /\ fa.kernels = <<>>
    /\ fr.op = "fusion_rope" /\ fr.context_parallel_degree > 1 /\ env.device # "gpu" =>
             fr.status # "ok" /\ fr.kernels = <<>>
    /\ \A i \in 1 .. Len(fa.kernels) :
          fa.kernels[i].name = "RingFlashAttention" => env.device = "gpu"

\* The last call was a call of fusion_flash_attention.
FusionCalled == fa.op = "fusion_flash_attention"

\* C12: a call of fusion_flash_attention that is given both a start/end
\* row-index mask and an alibi bias fails with an error, and no attention
\* kernel runs.
C12_StartEndMaskExcludesAlibi ==
    FusionCalled /\ fa.alibi /\ fa.startend =>
        fa.status # "ok" /\ fa.kernels = <<>>

\* C13: a call of fusion_flash_attention with an alibi bias on intel_hpu
\* raises an error and does not run the vendor attention primitive.
C13_AlibiRejectedOnIntelHpu ==
    FusionCalled /\ fa.alibi /\ env.device = "intel_hpu" =>
        /\ fa.status # "ok"
        /\ \A i \in 1 .. Len(fa.kernels) :
              fa.kernels[i].name # "fused_dot_product_attention"

\* The element count of a shape.
RECURSIVE Numel(_)
Numel(shape) == IF shape = <<>> THEN 1 ELSE Head(shape) * Numel(Tail(shape))

\* C14: whatever kernel ran, a successful call of fusion_flash_attention
\* returns attn_output with shape [batch, q_len, heads * head_dim], or
\* [batch * q_len, heads * head_dim] under sequence_parallel, where with a
\* reshard layer q_len is divided and heads multiplied by
\* sep_parallel_degree, which is then above 1 and divides q_len; the element
\* count is batch * q_len * heads * head_dim of the input.
C14_UniformOutputShape ==
    FusionReturned =>
        LET sep == fconfig.sep_parallel_degree
            q   == IF fa.reshard_layer THEN fa.q_len \div sep ELSE fa.q_len
            nh  == IF fa.reshard_layer THEN NumHeads * sep ELSE NumHeads
        IN  /\ fa.reshard_layer => sep > 1 /\ fa.q_len % sep = 0
            /\ fa.sequence_parallel => fa.shape = <<Bsz * q, nh * HeadDim>>
            /\ ~fa.sequence_parallel => fa.shape = <<Bsz, q, nh * HeadDim>>
            /\ Numel(fa.shape) = Bsz * fa.q_len * NumHeads * HeadDim

\* C14 witness: a successful call on a vendor device with a reshard layer
\* and sequence_parallel, returning the flattened resharded shape.
C14_Witness ==
    /\ FusionReturned
    /\ env.device = "npu"
    /\ fa.reshard_layer
    /\ fa.sequence_parallel
    /\ fa.q_len > 1
    /\ fa.shape = <<Bsz * (fa.q_len \div fconfig.sep_parallel_degree),
                    NumHeads * fconfig.sep_parallel_degree * HeadDim>>

\* C15: when fusion_flash_attention runs the generic scaled-dot-product
\* kernel, the causal flag it passes is true exactly when the query length
\* is above 1; a step with a single query token is not causal-masked.
C15_CausalOnlyForLongerQueries ==
    FusionReturned =>
        \A i \in 1 .. Len(fa.kernels) :
            fa.kernels[i].name = "scaled_dot_product_attention" =>
                /\ fa.kernels[i].causal <=> fa.q_len > 1
                /\ fa.q_len = 1 => ~fa.kernels[i].causal

\* C15 witness: a single-token call on the generic path, not causal.
C15_Witness ==
    /\ FusionReturned
    /\ fa.q_len = 1
    /\ Len(fa.kernels) = 1
    /\ fa.kernels[1].name = "scaled_dot_product_attention"
    /\ ~fa.kernels[1].causal

\* C16: the fused rotary primitive replaces the rotate-half path of a QWen
\* attention block only when the primitive was imported and the call
\* supplies no past key/value; fusion_rope rejects a past key/value with an
\* error on every device except gcu and intel_hpu.
C16_FusedRopeOnlyWithoutCache ==
    /\ last.op = "forward" =>
          \A i \in 1 .. Len(last.rope) :
             last.rope[i] = "fused" => ~last.past.some /\ env.has_fused_rope
    /\ fr.op = "fusion_rope" /\ fr.past_key_value
          /\ env.device \notin {"gcu", "intel_hpu"} =>
             fr.status = "AssertionError" /\ fr.kernels = <<>>
\* C18: for every tensor x whose last dimension is even,
\* rotate_half(rotate_half(x)) equals -x elementwise.
C18_RotateHalfTwiceNegates ==
    rh.op = "rotate_half" /\ rh.n = 2 /\ Len(rh.x[1]) % 2 = 0 =>
        rh.y = [r \in 1 .. Len(rh.x) |-> Neg(rh.x[r])]

\* rotate_half was applied twice to a tensor of two vectors of length 4 that
\* differ, and changed it.
C18_Witness ==
    /\ rh.op = "rotate_half" /\ rh.n = 2
    /\ Len(rh.x) = 2 /\ Len(rh.x[1]) = 4
    /\ rh.x[1] # rh.x[2]
    /\ rh.x[1][1] # rh.x[1][3]
    /\ rh.y # rh.x
\* C17: for every sequence length L not exceeding the table length,
\* apply_rotary_pos_emb with position_ids = None and with explicit
\* position_ids = [0 .. L-1] for each batch row return exactly the same
\* rotated query and key.
C17_ImplicitEqualsExplicitPositions ==
    /\ rp.op = "apply" /\ rp.implicit # <<>> /\ rp.explicit # <<>>
    /\ rp.position_ids = [b \in 1 .. Bsz |-> Arange(rp.L, 0)]
    => rp.implicit = rp.explicit

\* Both paths ran on a sequence of at least two positions with tables whose
\* rows differ, and the rotation changed the query.
C17_Witness ==
    /\ rp.op = "apply" /\ rp.implicit # <<>> /\ rp.explicit # <<>>
    /\ rp.position_ids = [b \in 1 .. Bsz |-> Arange(rp.L, 0)]
    /\ rp.L >= 2
    /\ rp.cos[1] # rp.cos[2] /\ rp.sin[1] # rp.sin[2]
    /\ rp.implicit[1] # rp.q
    /\ rp.implicit[1] # rp.implicit[2]
\* C19: the structural variant of the feed-forward block is fixed at
\* construction: whatever FLAGS_enable_fused_ffn_qkv_pass is changed to
\* between construction and calls, forward reads exactly the projections
\* that __init__ created and never one that was not constructed.
C19_ForwardUsesConstructedProjections ==
    mlast.op = "forward" =>
        mlast.status = "ok" /\ mlast.referenced = mlp.attrs
\* The kernel fusion_rms_norm runs on each device.
C20_DeviceKernel(device) ==
    CASE device = "npu" -> "rms_norm_npu"
      [] device = "mlu" -> "rms_norm_mlu"
      [] device = "gcu" -> "rms_norm_gcu"
      [] device = "intel_hpu" -> "paddle.incubate.fused_rms_norm"
      [] device = "xpu" -> "xpu_rms_norm"
      [] OTHER -> "rms_norm_fused"

\* The optional library that kernel needs in a call, "none" if it needs none.
C20_Needs(device, use_fast_ln) ==
    CASE device \in {"npu", "mlu", "gcu", "intel_hpu"} -> "none"
      [] device = "xpu" -> "paddle_xpu_nn"
      [] OTHER -> IF use_fast_ln THEN "fast_ln" ELSE "fused_ln"

\* C20: when the fused RMS-norm kernel selected for the device needs a
\* library that is missing, the call raises (NotImplementedError naming the
\* extension to install on xpu, an import error on the default path) and no
\* other kernel runs in its place; a call of fusion_rms_norm that returns
\* ran exactly one kernel, the one of the device. QWenRMSNormNet.forward
\* with use_fused_rms_norm likewise raises an import error without fused_ln
\* and does not fall back to the generic computation.
C20_MissingNormLibraryRaises ==
    /\ nm.op = "fusion_rms_norm" =>
          IF C20_Needs(env.device, nm.use_fast_ln) \in NormLibraries \ nm.libs
          THEN /\ nm.kernels = <<>> /\ nm.primitives = <<>>
               /\ nm.status = IF env.device = "xpu" THEN "NotImplementedError"
                                                    ELSE "ImportError"
               /\ env.device = "xpu" => nm.message = "paddle_xpu"
          ELSE /\ nm.status = "ok"
               /\ nm.kernels = <<C20_DeviceKernel(env.device)>>
               /\ Len(nm.primitives) = 1
               /\ nm.library = C20_Needs(env.device, nm.use_fast_ln)
    /\ nm.op = "QWenRMSNormNet.forward" =>
          IF nm.use_fused_rms_norm
          THEN IF "fused_ln" \in nm.libs
               THEN nm.status = "ok" /\ nm.kernels = <<"rms_norm_fused">>
               ELSE nm.status = "ImportError" /\ nm.kernels = <<>>
          ELSE nm.status = "ok" /\ nm.kernels = <<"_norm">>

\* fusion_rms_norm was called on xpu without paddle_xpu_nn while the
\* libraries of the default kernel were installed, and raised.
C20_Witness ==
    /\ nm.op = "fusion_rms_norm" /\ env.device = "xpu"
    /\ nm.libs = {"fused_ln", "fast_ln"}
    /\ nm.status = "NotImplementedError"
\* C21: when QWenModelNet.forward is asked for caching while recompute is
\* enabled and the model is in training mode, caching is disabled for that
\* call and the forward proceeds normally: every block runs with use_cache
\* false, no key/value cache is returned, and no error is raised.
C21_RecomputeDisablesCaching ==
    last.op = "forward" /\ last.use_cache /\ config.use_recompute /\ last.training =>
        /\ last.status = "ok"
        /\ last.block_use_cache = Rep(NumLayers, FALSE)
        /\ ~last.past_key_values.some
        /\ Len(last.tuple) = 1
\* C22: QWenModelNet.forward raises a configuration error when both
\* input_ids and inputs_embeds are supplied and when neither is, before any
\* block is executed and without changing any rotary or NTK cache state;
\* exactly one of the two being supplied is accepted.
C22_InputCheckBeforeAnyBlock ==
    [][last'.op = "forward" =>
         IF last'.inputs \in {"both", "neither"}
         THEN /\ last'.status = "ValueError"
              /\ last'.block_use_cache = <<>>
              /\ h' = h
         ELSE last'.status # "ValueError"]_vars

\* A call with both inputs raised after an earlier call had changed the NTK
\* memo and built the rotary tables.
C22_Witness ==
    /\ last.op = "forward" /\ last.inputs = "both" /\ last.status = "ValueError"
    /\ h[1].ntk_cached # InitNtkCached
    /\ h[1].rotary_emb # RotaryEmbedding_init
\* The padding mask allows key j for row b: no entry of it for that row and
\* key is masked.
C23_PadAllowsKey(b, j) ==
    \A hd \in 1 .. Len(PaddingTensor(gm.padding, gm.bs, gm.s, gm.s + gm.past_length)[b]) :
    \A i \in 1 .. gm.s :
        PaddingTensor(gm.padding, gm.bs, gm.s, gm.s + gm.past_length)[b][hd][i][j]

\* C23: the attention mask the stack derives is 4-dimensional with shape
\* [batch, 1, seq, seq + past_length], and for every batch b, query i and
\* key j its entry is 0 exactly when j <= past_length + i and the padding
\* mask allows key j for row b; every other entry is the most negative
\* value.
C23_MaskCausalAndPaddingPerKey ==
    gm.op = "forward" =>
        /\ gm.shape = <<gm.bs, 1, gm.s, gm.s + gm.past_length>>
        /\ \A b \in 1 .. gm.bs : \A i \in 1 .. gm.s : \A j \in 1 .. gm.s + gm.past_length :
              gm.mask[b][1][i][j] =
                  IF j <= gm.past_length + i /\ C23_PadAllowsKey(b, j)
                  THEN "0" ELSE "bfloat16.min"

\* The head axis of the mask: that of a 4-D padding mask, else 1.
C23_Heads == IF gm.padding.rank = 4 THEN Len(gm.padding.data[1]) ELSE 1

\* The padding mask's entry for batch b, head hd, query i and key j: a 2-D
\* mask has one entry per batch row and key, a 3-D mask one per query too.
C23_PadAllows(b, hd, i, j) ==
    CASE gm.padding.rank = 0 -> TRUE
      [] gm.padding.rank = 2 -> gm.padding.data[b][j]
      [] gm.padding.rank = 3 -> gm.padding.data[b][i][j]
      [] gm.padding.rank = 4 -> gm.padding.data[b][hd][i][j]

\* C23 (amended): the mask has shape [batch, H, seq, seq + past_length],
\* where H is the head axis of a 4-D padding mask and 1 otherwise; its entry
\* for batch b, head h, query i and key j is 0 exactly when
\* j <= past_length + i and the padding mask's entry for (b, h, i, j) is
\* set, and the most negative bfloat16 value otherwise.
C23_MaskCausalAndPadding ==
    gm.op = "forward" =>
        /\ gm.shape = <<gm.bs, C23_Heads, gm.s, gm.s + gm.past_length>>
        /\ \A b \in 1 .. gm.bs : \A hd \in 1 .. C23_Heads :
           \A i \in 1 .. gm.s : \A j \in 1 .. gm.s + gm.past_length :
              gm.mask[b][hd][i][j] =
                  IF j <= gm.past_length + i /\ C23_PadAllows(b, hd, i, j)
                  THEN "0" ELSE "bfloat16.min"

\* A mask was derived for two rows of two new tokens after a cached one,
\* with a 2-D padding mask that masks a key of one row only.
C23_Witness ==
    /\ gm.op = "forward" /\ gm.bs = 2 /\ gm.s = 2 /\ gm.past_length = 1
    /\ gm.padding.rank = 2
    /\ gm.padding.data[1] = <<TRUE, TRUE, TRUE>>
    /\ gm.padding.data[2] = <<FALSE, TRUE, TRUE>>
    /\ gm.mask[1][1][1] = <<"0", "0", "bfloat16.min">>
    /\ gm.mask[2][1][2] = <<"bfloat16.min", "0", "0">>

\* The entropies of the positions whose label is not ignore_index.
RECURSIVE C24_Counted(_)
C24_Counted(ps) ==
    IF ps = <<>> THEN <<>>
    ELSE (IF Head(ps).ignored THEN <<>> ELSE <<Head(ps).entropy>>) \o C24_Counted(Tail(ps))

\* C24: the loss criterion returns the mean of the per-position loss over
\* exactly the positions whose label differs from the ignore value: every
\* ignored position is excluded from the mean and every other position is
\* included, whatever its loss value.
C24_MeanOverNonIgnoredPositions ==
    cr.op = "forward" => cr.loss = Mean(C24_Counted(cr.positions))
\* The attention weights of every block, in block order.
RECURSIVE C25_AllWeights(_)
C25_AllWeights(n) == IF n = 0 THEN <<>> ELSE Append(C25_AllWeights(n - 1), AttnWeights(n))

\* C25: when output_attentions is requested, QWenModelNet.forward returns
\* the attentions in both return forms, the tuple and the structured one,
\* with exactly one entry per decoder block, entry i being block i's
\* attention weights, whatever the value of use_cache.
C25_AttentionsInBothReturnForms ==
    Returned /\ last.output_attentions =>
        /\ last.attentions = Some(C25_AllWeights(NumLayers))
        /\ \E k \in 1 .. Len(last.tuple) : last.tuple[k] = Some(C25_AllWeights(NumLayers))

\* C26: two consecutive forward calls of the same decoder stack on the same
\* input with caching disabled produce identical outputs: the NTK alpha and
\* the rotary table slices used in the second call equal those of the
\* first, whatever the state of the rotary and NTK caches before the first.
C26_RepeatedCallIsIdentical ==
    [][last'.op = "forward" /\ last'.repeat /\ ~last'.use_cache_eff =>
          /\ last'.status = last.status
          /\ last'.ntk_alpha = last.ntk_alpha
          /\ last'.slices = last.slices
          /\ last'.tuple = last.tuple
          /\ last'.attentions = last.attentions]_vars

\* An inference call on an input beyond the trained length was repeated
\* without caching and returned; its first run had to change the NTK memo.
C26_Witness ==
    /\ Returned /\ last.repeat /\ ~last.use_cache_eff /\ ~last.training
    /\ last.q_len > SeqLength
    /\ last.ntk_alpha # Rep(NumLayers, InitNtkCached)
    /\ last.slices # <<>>

\* C27: in get_static_model_on_pdc every process that reaches the barrier is
\* eventually released and returns a path, also when the coordinator fails to
\* download.
C27_BarrierAlwaysReleases ==
    \A p \in Procs(MaxProcs) :
        (pdc.op = "run" /\ p \in DOMAIN pdc.pc /\ pdc.pc[p] = "barrier")
            ~> (pdc.op = "run" /\ p \in DOMAIN pdc.pc /\ pdc.pc[p] = "returned")

\* The caller is writing the temporary file of its target or decompressing
\* the target.
C28_Working(c) == dl.pc[c] \in {"writing", "decompress"}

\* C28: get_path_from_url_with_filelock is multiprocess-safe: at most one
\* caller at a time downloads to or decompresses a given target file, a
\* caller that has left holds no lock, and after a successful return the
\* downloaded file is at its target path.
C28_OneWorkerPerTarget ==
    dl.op = "run" =>
        /\ \A c1, c2 \in Callers :
              c1 # c2 /\ C28_Working(c1) /\ C28_Working(c2) => FullPath(c1) # FullPath(c2)
        /\ (\A c \in Callers : dl.pc[c] \in {"start", "returned", "raised"}) => dl.locks = {}
        /\ \A c \in Callers : dl.pc[c] = "returned" => FullPath(c) \in dl.files

\* What C29 says of every state of a _download call: at most
\* DOWNLOAD_RETRY_LIMIT fetches; a return only with a file that exists and
\* passes the md5 check; no exception but RuntimeError; and the target only
\* ever replaced by a completely written temporary file.
C29_Outcome ==
    dn.op = "run" =>
        /\ dn.fetches <= DOWNLOAD_RETRY_LIMIT
        /\ dn.pc = "returned" => dn.file # "absent" /\ Md5Check(dn.file, dn.md5sum)
        /\ dn.pc = "raised" => dn.error = "RuntimeError"
        /\ \A k \in 1 .. Len(dn.moved) : dn.moved[k] # "partial"

\* C29: _download always terminates, after at most DOWNLOAD_RETRY_LIMIT
\* fetches, by returning the path of a file that passes the md5 check or by
\* raising RuntimeError, and only ever replaces the target by a completely
\* written temporary file.
C29_DownloadTerminates ==
    /\ []C29_Outcome
    /\ <>(dn.op = "run" /\ dn.pc \in {"returned", "raised"})

\* C30: the path a process gets from get_static_model_on_pdc holds a usable
\* static model: it is the flash path only if that path passed the flash
\* check or was backed up successfully in this call, otherwise it is the
\* persistent path, downloaded or already there; and all processes return
\* the same path.
C30_ReturnedPathIsUsable ==
    pdc.op = "run" =>
        \A p \in DOMAIN pdc.pc :
            pdc.pc[p] = "returned" =>
                /\ pdc.ret[p] = "flash_path" => pdc.checked \/ pdc.backed_up
                /\ pdc.ret[p] = "persistent_path" => pdc.downloaded /\ pdc.persistent_exists
                /\ \A q \in DOMAIN pdc.pc : pdc.pc[q] = "returned" => pdc.ret[q] = pdc.ret[p]

====
